---- MODULE Spec2Model ----
(***************************************************************************)
(* Terminal Idle Monitor (src/src/extension.ts): the execution registry,   *)
(* the per-tick threshold evaluation, the notification gating, the         *)
(* termination protocol and the exclusion filter, as a state machine.      *)
(*                                                                         *)
(* Time is Date.now() in milliseconds.  Strings are sequences of           *)
(* one-character strings, so that split, trim, join and the pattern-to-    *)
(* regular-expression conversion are computed as the code computes them.   *)
(* Every callback runs to completion as one step (the host is single-      *)
(* threaded); the quick pick of showMenu is two steps, because the code    *)
(* captures the focused execution before it awaits the user's selection.   *)
(***************************************************************************)
EXTENDS Integers, Sequences, FiniteSets, TLC

VARIABLES
    now,                        \* Date.now(), ms
    advances,                   \* how many times the clock has advanced
    config,                     \* the terminalIdleMonitor configuration
    phase,                      \* host side: "new" | "running" | "ended" | "removed"
    startedOn,                  \* the terminal each execution runs in
    activeExecutions,           \* the registry's keys, in Map insertion order
    data,                       \* ExecutionData per execution (NoData before it exists)
    alerts,                     \* the alerts on screen
    isNotificationShowing,
    lastNotificationCloseTime,
    flashing,                   \* flashInterval is set
    activeTerminal,             \* vscode.window.activeTerminal
    disposed,                   \* terminals destroyed by terminal.dispose()
    termLog,                    \* per execution, what terminateExecution did, in order
    menu,                       \* the open quick pick of showMenu, or NoMenu
    ticked,                     \* the step that led here was a tick
    statusBar,                  \* statusBarItem: the icon its text starts with, and shown or hidden
    escalated,                  \* history: a Snooze was taken with obnoxiousSnooze on, no idle alert since
    settingsPanel,              \* the settings webview panel exists
    fEnabled, fPatterns, fName, fResult,  \* inputs and result of the exclusion filter
    rGlobal, rWorkspace,        \* Reset All: the options whose globalValue / workspaceValue is defined
    rHasWorkspace, rDone        \* Reset All: a workspace folder is open; the handler has run

vars == <<now, advances, config, phase, startedOn, activeExecutions, data, alerts,
          isNotificationShowing, lastNotificationCloseTime, flashing,
          activeTerminal, disposed, termLog, menu, ticked, statusBar, escalated,
          settingsPanel, fEnabled, fPatterns, fName, fResult,
          rGlobal, rWorkspace, rHasWorkspace, rDone>>

----------------------------------------------------------------------------
(* Bounds of the model *)

MaxAdvances == 3
MaxInvocations == 4
MaxPatLen == 3
MaxNameLen == 2

ExecOrder == <<"e1", "e2">>
Execs == {ExecOrder[i] : i \in 1..Len(ExecOrder)}
ExecIndex(e) == CHOOSE i \in 1..Len(ExecOrder) : ExecOrder[i] = e
Terminals == {"t1", "t2"}
None == "none"

\* terminal.name of each terminal
TerminalName(t) == IF t = "t1" THEN <<"a">> ELSE <<"b">>

----------------------------------------------------------------------------
(* Strings *)

Whitespace == {" "}
\* /[.*+?^${}()|[\]\\]/
RegexMeta == {".", "*", "+", "?", "^", "$", "{", "}", "(", ")", "|", "[", "]", "\\"}
LineTerminators == {"\n", "\r"}

Lower(c) == CASE c = "A" -> "a" [] c = "B" -> "b" [] c = "N" -> "n" [] OTHER -> c

RECURSIVE SplitFrom(_, _, _)
\* String.prototype.split(sep): the pieces between the separators, at least one
SplitFrom(s, sep, cur) ==
    IF s = <<>> THEN <<cur>>
    ELSE IF Head(s) = sep THEN <<cur>> \o SplitFrom(Tail(s), sep, <<>>)
    ELSE SplitFrom(Tail(s), sep, Append(cur, Head(s)))

Split(s, sep) == SplitFrom(s, sep, <<>>)

RECURSIVE TrimStart(_)
TrimStart(s) ==
    IF s # <<>> /\ Head(s) \in Whitespace THEN TrimStart(Tail(s)) ELSE s

RECURSIVE TrimEnd(_)
TrimEnd(s) ==
    IF s # <<>> /\ s[Len(s)] \in Whitespace
    THEN TrimEnd(SubSeq(s, 1, Len(s) - 1)) ELSE s

\* String.prototype.trim
Trim(s) == TrimEnd(TrimStart(s))

RECURSIVE Join(_, _)
\* Array.prototype.join(sep)
Join(parts, sep) ==
    IF parts = <<>> THEN <<>>
    ELSE IF Len(parts) = 1 THEN parts[1]
    ELSE parts[1] \o sep \o Join(Tail(parts), sep)

MapTrim(parts) == [i \in 1..Len(parts) |-> Trim(parts[i])]

RECURSIVE FilterNonEmpty(_)
\* .filter((p) => p)
FilterNonEmpty(parts) ==
    IF parts = <<>> THEN <<>>
    ELSE IF Head(parts) = <<>> THEN FilterNonEmpty(Tail(parts))
    ELSE <<Head(parts)>> \o FilterNonEmpty(Tail(parts))

Includes(parts, x) == \E i \in 1..Len(parts) : parts[i] = x

RECURSIVE EscapeRegExp(_)
\* p.replace(/[.*+?^${}()|[\]\\]/g, '\\$&')
EscapeRegExp(p) ==
    IF p = <<>> THEN <<>>
    ELSE (IF Head(p) \in RegexMeta THEN <<"\\", Head(p)>> ELSE <<Head(p)>>)
         \o EscapeRegExp(Tail(p))

RECURSIVE StarToWildcard(_)
\* .replace(/\\\*/g, '.*')
StarToWildcard(s) ==
    IF s = <<>> THEN <<>>
    ELSE IF Len(s) >= 2 /\ s[1] = "\\" /\ s[2] = "*"
         THEN <<".", "*">> \o StarToWildcard(SubSeq(s, 3, Len(s)))
    ELSE <<Head(s)>> \o StarToWildcard(Tail(s))

\* the source handed to new RegExp(..., 'i')
PatternSource(p) == <<"^">> \o StarToWildcard(EscapeRegExp(p)) \o <<"$">>

RECURSIVE RegexAtoms(_)
\* The atoms of a regular expression body made of escaped characters, '.',
\* plain characters and the '*' quantifier.
RegexAtoms(re) ==
    IF re = <<>> THEN <<>>
    ELSE LET esc  == Head(re) = "\\" /\ Len(re) >= 2
             used == IF esc THEN 2 ELSE 1
             atom == IF esc THEN [kind |-> "lit", ch |-> re[2]]
                     ELSE IF Head(re) = "." THEN [kind |-> "any", ch |-> "."]
                     ELSE [kind |-> "lit", ch |-> Head(re)]
             star == Len(re) > used /\ re[used + 1] = "*"
             rest == SubSeq(re, used + (IF star THEN 2 ELSE 1), Len(re))
         IN  <<[kind |-> atom.kind, ch |-> atom.ch, star |-> star]>> \o RegexAtoms(rest)

\* one atom against one character, under the 'i' flag
AtomMatches(a, c) ==
    IF a.kind = "any" THEN c \notin LineTerminators
    ELSE Lower(a.ch) = Lower(c)

RECURSIVE AtomsMatch(_, _)
\* the atoms match the whole of s
AtomsMatch(atoms, s) ==
    IF atoms = <<>> THEN s = <<>>
    ELSE LET a == Head(atoms) IN
         IF a.star
         THEN \/ AtomsMatch(Tail(atoms), s)
              \/ /\ s # <<>>
                 /\ AtomMatches(a, Head(s))
                 /\ AtomsMatch(atoms, Tail(s))
         ELSE /\ s # <<>>
              /\ AtomMatches(a, Head(s))
              /\ AtomsMatch(Tail(atoms), Tail(s))

\* new RegExp(source, 'i').test(s) for a source "^" body "$"
RegexTest(source, s) ==
    AtomsMatch(RegexAtoms(SubSeq(source, 2, Len(source) - 1)), s)

\* isTerminalExcluded, on the two options it reads
ExcludedBy(enableExclusions, excludePatterns, terminalName) ==
    IF ~enableExclusions THEN FALSE
    ELSE IF excludePatterns = <<>> THEN FALSE
    ELSE LET patterns == MapTrim(Split(excludePatterns, ","))
         IN  \E i \in 1..Len(patterns) :
                 RegexTest(PatternSource(patterns[i]), terminalName)

IsTerminalExcluded(cfg, terminalName) ==
    ExcludedBy(cfg.enableExclusions, cfg.excludePatterns, terminalName)

----------------------------------------------------------------------------
(* Configuration *)

ClockStart == 10000
CooldownMs == 2000
MsPerMinute == 60000
MsPerSecond == 1000

\* config.get('autoTerminateEnabled'): the workspace value overrides the global one
AutoTerminateEnabled(cfg) ==
    IF cfg.autoTerminateWorkspace # "unset" THEN cfg.autoTerminateWorkspace = "on"
    ELSE cfg.autoTerminateGlobal = "on"

\* config.get<number>('idleTimeout') || 60
IdleTimeoutSecs(cfg) == IF cfg.idleTimeout = 0 THEN 60 ELSE cfg.idleTimeout

\* (config.get<number>('totalTimeout') || 5) * 60
TotalTimeoutSecs(cfg) == (IF cfg.totalTimeout = 0 THEN 5 ELSE cfg.totalTimeout) * 60

\* (config.get<number>('autoTerminateTimeout') || 10) * 60
AutoTerminateSecs(cfg) ==
    (IF cfg.autoTerminateTimeout = 0 THEN 10 ELSE cfg.autoTerminateTimeout) * 60

\* config.get<number>('hardTerminateRetries') || 3
MaxRetries(cfg) == IF cfg.hardTerminateRetries = 0 THEN 3 ELSE cfg.hardTerminateRetries

\* obnoxiousModeTime is <<>> when null, <<seconds>> when set
ObnoxiousTimeSet(cfg) == cfg.obnoxiousModeTime # <<>>

BaseConfig ==
    [enabled |-> TRUE, idleTimeout |-> 2, totalTimeout |-> 1,
     onlyMonitorActive |-> FALSE, obnoxiousMode |-> FALSE,
     obnoxiousModeTime |-> <<>>, obnoxiousSnooze |-> FALSE,
     enableExclusions |-> FALSE, excludePatterns |-> <<>>,
     useSigInt |-> FALSE, hardTerminateRetries |-> 3,
     autoTerminateGlobal |-> "unset", autoTerminateWorkspace |-> "unset",
     autoTerminateTimeout |-> 1, hasWorkspace |-> TRUE,
     statusBarAlwaysVisible |-> TRUE]

----------------------------------------------------------------------------
(* ExecutionData *)

NoData ==
    [startTime |-> 0, lastActivity |-> 0, terminal |-> None,
     idleNotified |-> FALSE, obnoxiousNotified |-> FALSE, totalNotified |-> FALSE,
     snoozeUntil |-> 0, forceNextObnoxious |-> FALSE, terminationAttempts |-> 0,
     dismissNotification |-> None]

\* a record that starts with its snooze deadline at the start time
NewDataSnoozedToStart(t, nowv) ==
    [startTime |-> nowv, lastActivity |-> nowv, terminal |-> t,
     idleNotified |-> FALSE, obnoxiousNotified |-> FALSE, totalNotified |-> FALSE,
     snoozeUntil |-> nowv, forceNextObnoxious |-> FALSE, terminationAttempts |-> 0,
     dismissNotification |-> None]

\* the record onDidStartTerminalShellExecution builds
NewData(t, nowv) ==
    [startTime |-> nowv, lastActivity |-> nowv, terminal |-> t,
     idleNotified |-> FALSE, obnoxiousNotified |-> FALSE, totalNotified |-> FALSE,
     snoozeUntil |-> 0, forceNextObnoxious |-> FALSE, terminationAttempts |-> 0,
     dismissNotification |-> None]

HasData(e) == data[e].terminal # None

InRegistry(reg, e) == \E i \in 1..Len(reg) : reg[i] = e

Tracked(e) == InRegistry(activeExecutions, e)

RECURSIVE Without(_, _)
\* Map.delete
Without(reg, e) ==
    IF reg = <<>> THEN <<>>
    ELSE IF Head(reg) = e THEN Without(Tail(reg), e)
    ELSE <<Head(reg)>> \o Without(Tail(reg), e)

\* Math.floor((now - data.startTime) / 1000)
Elapsed(d, nowv) == (nowv - d.startTime) \div MsPerSecond

\* Math.floor((now - data.lastActivity) / 1000)
Idle(d, nowv) == (nowv - d.lastActivity) \div MsPerSecond

IsSnoozed(d, nowv) == nowv < d.snoozeUntil

\* The mutable state a callback works on.
State ==
    [data |-> data, reg |-> activeExecutions, alerts |-> alerts,
     showing |-> isNotificationShowing, lastClose |-> lastNotificationCloseTime,
     flashing |-> flashing, disposed |-> disposed, termLog |-> termLog,
     config |-> config, bar |-> statusBar, found |-> FALSE, owed |-> escalated]

----------------------------------------------------------------------------
(* terminateExecution *)

\* termLog records each call on the terminal with the caller: "tick", "alert" or "menu"
Call(what, by) == [what |-> what, by |-> by]

\* terminateExecution taking the interrupt branch whatever useSigInt says
TerminateBySignalFirst(st, e, by) ==
    LET d == st.data[e]
        attempts == d.terminationAttempts + 1
        destroy  == attempts > MaxRetries(st.config)
    IN  [st EXCEPT
           !.data[e].terminationAttempts = attempts,
           !.disposed[d.terminal] = IF destroy THEN TRUE ELSE @,
           !.termLog[e] = Append(@, Call(IF destroy THEN "destroy" ELSE "signal", by))]

TerminateExecution(st, e, by) ==
    LET d == st.data[e]
        cfg == st.config
    IN  IF cfg.useSigInt
        THEN LET attempts == d.terminationAttempts + 1
                 destroy  == attempts > MaxRetries(cfg)
             IN  [st EXCEPT
                    !.data[e].terminationAttempts = attempts,
                    !.disposed[d.terminal] = IF destroy THEN TRUE ELSE @,
                    !.termLog[e] = Append(@, Call(IF destroy THEN "destroy" ELSE "signal", by))]
        ELSE [st EXCEPT
                !.disposed[d.terminal] = TRUE,
                !.termLog[e] = Append(@, Call("destroy", by))]

(* stopFlashing: clearInterval(flashInterval) *)
StopFlashing(st) == [st EXCEPT !.flashing = FALSE]

(* startFlashing: a no-op when the interval is already set *)
StartFlashing(st) == [st EXCEPT !.flashing = TRUE]

(* createStatusBar: a new item, shown when enabled and statusBarAlwaysVisible *)
CreateStatusBar(cfg) ==
    [icon |-> IF ~AutoTerminateEnabled(cfg) THEN "$(terminal-cmd)"
              ELSE IF cfg.autoTerminateGlobal = "on" THEN "$(warning)"
              ELSE "$(chat-sparkle-warning)",
     visible |-> cfg.enabled /\ cfg.statusBarAlwaysVisible]

(* onDidChangeConfiguration, run after every config.update *)
ConfigurationChanged(st) ==
    LET st1 == IF ~st.config.enabled THEN StopFlashing(st) ELSE st
    IN  [st1 EXCEPT !.bar = CreateStatusBar(st.config)]

(* handleExcludeAction *)
HandleExcludeAction(st, e) ==
    LET name == TerminalName(st.data[e].terminal)
        patterns == FilterNonEmpty(MapTrim(Split(st.config.excludePatterns, ",")))
        updated ==
            IF ~Includes(patterns, name)
            THEN ConfigurationChanged(
                   [st EXCEPT
                      !.config.excludePatterns = Join(Append(patterns, name), <<",", " ">>),
                      !.config.enableExclusions = TRUE])
            ELSE st
    IN  [updated EXCEPT !.reg = Without(@, e)]

\* a close that leaves the time of the last close as it was
ClosedWithoutStamp(st, a, nowv) ==
    [st EXCEPT !.alerts = @ \ {a}, !.showing = FALSE]

\* The '.then' of a notification: the alert is off the screen.
Closed(st, a, nowv) ==
    [st EXCEPT !.alerts = @ \ {a}, !.showing = FALSE, !.lastClose = nowv]

QuietAlertOf(st, e) ==
    {a \in st.alerts : a.owner = e /\ ~a.obnoxious /\ a.kind = st.data[e].dismissNotification}

\* a dismissal that resolves whichever quiet notification is on the screen
CallDismissAnyAlert(st, e, nowv) ==
    LET quiet == {a \in st.alerts : ~a.obnoxious}
        st1 == IF quiet = {} THEN st
               ELSE Closed(st, CHOOSE a \in quiet : TRUE, nowv)
    IN  [st1 EXCEPT !.data[e].dismissNotification = None]

\* if (data.dismissNotification) { data.dismissNotification(); data.dismissNotification = undefined; }
\* Resolving a promise that is already resolved does nothing.
CallDismiss(st, e, nowv) ==
    IF st.data[e].dismissNotification = None THEN st
    ELSE LET pending == QuietAlertOf(st, e)
             st1 == IF pending = {} THEN st
                    ELSE Closed(st, CHOOSE a \in pending : TRUE, nowv)
         IN  [st1 EXCEPT !.data[e].dismissNotification = None]

----------------------------------------------------------------------------
(* checkInterval: the one-second tick *)

\* line 548: !isNotificationShowing && now - lastNotificationCloseTime > 2000
IdleGateOpen(st, nowv) == ~st.showing /\ nowv - st.lastClose > CooldownMs

\* the total-alert path without the cooldown
TotalGateIgnoringCooldown(st, nowv) == ~st.showing

\* the total-alert path forgetting the showing flag
TotalGateIgnoringFlag(st, nowv) == nowv - st.lastClose > CooldownMs

\* lines 652-653: the same two conditions on the total-alert path
TotalGateOpen(st, nowv) == ~st.showing /\ nowv - st.lastClose > CooldownMs

\* the idle threshold reached only when it is exceeded
IsStrictlyPastIdle(idle, cfg) == idle > IdleTimeoutSecs(cfg)

IsPastIdle(idle, cfg) == idle >= IdleTimeoutSecs(cfg)

\* the obnoxious threshold counting only once the idle threshold is reached too
IsPastObnoxiousAndIdle(idle, cfg) ==
    ObnoxiousTimeSet(cfg) /\ idle >= cfg.obnoxiousModeTime[1] /\ idle >= IdleTimeoutSecs(cfg)

IsPastObnoxious(idle, cfg) ==
    ObnoxiousTimeSet(cfg) /\ idle >= cfg.obnoxiousModeTime[1]

\* the decision with a forceNextObnoxious branch that does not wait for the idle timeout
IdleDecisionForcedAtOnce(d, idle, cfg) ==
    LET obnoxious ==
            /\ ~d.obnoxiousNotified
            /\ IF IsPastObnoxious(idle, cfg) THEN TRUE
               ELSE IF d.forceNextObnoxious THEN TRUE
               ELSE cfg.obnoxiousMode /\ IsPastIdle(idle, cfg) /\ ~d.idleNotified
    IN  IF obnoxious THEN "obnoxious"
        ELSE IF ~d.idleNotified /\ IsPastIdle(idle, cfg) THEN "quiet"
        ELSE "none"

\* the decision with an obnoxiousMode branch that does not wait for the idle timeout
IdleDecisionModeAtOnce(d, idle, cfg) ==
    LET obnoxious ==
            /\ ~d.obnoxiousNotified
            /\ IF IsPastObnoxious(idle, cfg) THEN TRUE
               ELSE IF d.forceNextObnoxious /\ IsPastIdle(idle, cfg) THEN TRUE
               ELSE cfg.obnoxiousMode /\ ~d.idleNotified
    IN  IF obnoxious THEN "obnoxious"
        ELSE IF ~d.idleNotified /\ IsPastIdle(idle, cfg) THEN "quiet"
        ELSE "none"

\* the decision without the forceNextObnoxious branch
IdleDecisionWithoutForce(d, idle, cfg) ==
    LET obnoxious ==
            /\ ~d.obnoxiousNotified
            /\ IF IsPastObnoxious(idle, cfg) THEN TRUE
               ELSE cfg.obnoxiousMode /\ IsPastIdle(idle, cfg) /\ ~d.idleNotified
    IN  IF obnoxious THEN "obnoxious"
        ELSE IF ~d.idleNotified /\ IsPastIdle(idle, cfg) THEN "quiet"
        ELSE "none"

\* the decision with a quiet branch that forgets the idleNotified latch
IdleDecisionUnlatched(d, idle, cfg) ==
    LET obnoxious ==
            /\ ~d.obnoxiousNotified
            /\ IF IsPastObnoxious(idle, cfg) THEN TRUE
               ELSE IF d.forceNextObnoxious /\ IsPastIdle(idle, cfg) THEN TRUE
               ELSE cfg.obnoxiousMode /\ IsPastIdle(idle, cfg) /\ ~d.idleNotified
    IN  IF obnoxious THEN "obnoxious"
        ELSE IF IsPastIdle(idle, cfg) THEN "quiet"
        ELSE "none"

\* lines 549-565: "none", "quiet" or "obnoxious", once the gate is open
IdleDecision(d, idle, cfg) ==
    LET obnoxious ==
            /\ ~d.obnoxiousNotified
            /\ IF IsPastObnoxious(idle, cfg) THEN TRUE
               ELSE IF d.forceNextObnoxious /\ IsPastIdle(idle, cfg) THEN TRUE
               ELSE cfg.obnoxiousMode /\ IsPastIdle(idle, cfg) /\ ~d.idleNotified
    IN  IF obnoxious THEN "obnoxious"
        ELSE IF ~d.idleNotified /\ IsPastIdle(idle, cfg) THEN "quiet"
        ELSE "none"

Alert(e, kind, obnoxious, cfg) ==
    [owner |-> e, kind |-> kind, obnoxious |-> obnoxious,
     obnoxiousSnooze |-> cfg.obnoxiousSnooze]

\* lines 568-638
RaiseIdle(st, e, obnoxious) ==
    LET latched ==
            [st EXCEPT
               !.data[e].idleNotified = TRUE,
               !.data[e].obnoxiousNotified = IF obnoxious THEN TRUE ELSE @,
               !.data[e].forceNextObnoxious = IF obnoxious THEN FALSE ELSE @,
               !.data[e].dismissNotification = IF obnoxious THEN @ ELSE "idle",
               !.owed[e] = FALSE,
               !.showing = TRUE,
               !.alerts = @ \cup {Alert(e, "idle", obnoxious, st.config)}]
    IN  IF obnoxious THEN StartFlashing(latched) ELSE latched

\* auto-terminate held back by the gate of the alerts
AutoTerminateDueBehindGate(st, idle, nowv) ==
    /\ st.config.enabled
    /\ AutoTerminateEnabled(st.config)
    /\ idle >= AutoTerminateSecs(st.config)
    /\ ~st.showing /\ nowv - st.lastClose > CooldownMs

\* lines 641-645: the showing flag and the cooldown are not consulted
AutoTerminateDue(st, idle, nowv) ==
    /\ st.config.enabled
    /\ AutoTerminateEnabled(st.config)
    /\ idle >= AutoTerminateSecs(st.config)

\* lines 650-656
TotalDue(st, e, elapsed, nowv) ==
    /\ st.config.enabled
    /\ TotalGateOpen(st, nowv)
    /\ ~st.data[e].totalNotified
    /\ elapsed >= TotalTimeoutSecs(st.config)

\* a total alert that is obnoxious by obnoxiousMode alone
RaiseTotalByModeOnly(st, e) ==
    LET obnoxious == st.config.obnoxiousMode
        latched ==
            [st EXCEPT
               !.data[e].totalNotified = TRUE,
               !.data[e].forceNextObnoxious = IF obnoxious THEN FALSE ELSE @,
               !.data[e].dismissNotification = IF obnoxious THEN @ ELSE "total",
               !.showing = TRUE,
               !.alerts = @ \cup {Alert(e, "total", obnoxious, st.config)}]
    IN  IF obnoxious THEN StartFlashing(latched) ELSE latched

\* lines 657-721
RaiseTotal(st, e) ==
    LET obnoxious == st.config.obnoxiousMode \/ st.data[e].forceNextObnoxious
        latched ==
            [st EXCEPT
               !.data[e].totalNotified = TRUE,
               !.data[e].forceNextObnoxious = IF obnoxious THEN FALSE ELSE @,
               !.data[e].dismissNotification = IF obnoxious THEN @ ELSE "total",
               !.showing = TRUE,
               !.alerts = @ \cup {Alert(e, "total", obnoxious, st.config)}]
    IN  IF obnoxious THEN StartFlashing(latched) ELSE latched

\* the skip conditions without onlyMonitorActive
SkippedButForFocus(st, e, nowv, activeT) ==
    LET d == st.data[e] IN
    IF IsTerminalExcluded(st.config, TerminalName(d.terminal)) THEN TRUE
    ELSE IsSnoozed(d, nowv)

\* the skip conditions without the snooze
SkippedButForSnooze(st, e, nowv, activeT) ==
    LET d == st.data[e] IN
    IF IsTerminalExcluded(st.config, TerminalName(d.terminal)) THEN TRUE
    ELSE st.config.onlyMonitorActive /\ d.terminal # activeT

\* lines 504-528: the executions a tick does not evaluate
Skipped(st, e, nowv, activeT) ==
    LET d == st.data[e] IN
    IF IsTerminalExcluded(st.config, TerminalName(d.terminal)) THEN TRUE
    ELSE IF st.config.onlyMonitorActive /\ d.terminal # activeT THEN TRUE
    ELSE IsSnoozed(d, nowv)

\* lines 497-499: the icon the tick writes
TickIcon(cfg) ==
    IF AutoTerminateEnabled(cfg) THEN "$(chat-sparkle-warning)" ELSE "$(terminal-cmd)"

\* lines 504-524: the status text of the focused terminal's record, written before
\* the snooze is looked at
ShowStatus(st, e, activeT) ==
    LET d == st.data[e] IN
    IF IsTerminalExcluded(st.config, TerminalName(d.terminal)) THEN st
    ELSE IF st.config.onlyMonitorActive /\ d.terminal # activeT THEN st
    ELSE IF d.terminal # activeT THEN st
    ELSE [st EXCEPT !.bar = [icon |-> TickIcon(st.config), visible |-> TRUE],
                    !.found = TRUE]

\* lines 724-733
StatusAfterLoop(st) ==
    IF st.found THEN st
    ELSE IF st.config.statusBarAlwaysVisible
         THEN [st EXCEPT !.bar = [icon |-> TickIcon(st.config), visible |-> TRUE]]
    ELSE [st EXCEPT !.bar.visible = FALSE]

\* an iteration that sets the idle latch when the decision is made, shown or not
TickExecLatchingAtDecision(st, e, nowv, activeT) ==
    IF Skipped(st, e, nowv, activeT) THEN ShowStatus(st, e, activeT)
    ELSE LET st0 == ShowStatus(st, e, activeT)
             d == st0.data[e]
             idle == Idle(d, nowv)
             elapsed == Elapsed(d, nowv)
             decision == IdleDecision(d, idle, st0.config)
             st1 == IF decision = "none" THEN st0
                    ELSE IF IdleGateOpen(st0, nowv)
                         THEN RaiseIdle(st0, e, decision = "obnoxious")
                    ELSE [st0 EXCEPT !.data[e].idleNotified = TRUE]
         IN  IF AutoTerminateDue(st1, idle, nowv) THEN TerminateExecution(st1, e, "tick")
             ELSE IF TotalDue(st1, e, elapsed, nowv) THEN RaiseTotal(st1, e)
             ELSE st1

\* one iteration of the for loop
TickExec(st, e, nowv, activeT) ==
    IF Skipped(st, e, nowv, activeT) THEN ShowStatus(st, e, activeT)
    ELSE LET st0 == ShowStatus(st, e, activeT)
             d == st0.data[e]
             idle == Idle(d, nowv)
             elapsed == Elapsed(d, nowv)
             decision == IF IdleGateOpen(st0, nowv)
                         THEN IdleDecision(d, idle, st0.config) ELSE "none"
             st1 == IF decision = "none" THEN st0
                    ELSE RaiseIdle(st0, e, decision = "obnoxious")
         IN  IF AutoTerminateDue(st1, idle, nowv) THEN TerminateExecution(st1, e, "tick")
             ELSE IF TotalDue(st1, e, elapsed, nowv) THEN RaiseTotal(st1, e)
             ELSE st1

RECURSIVE TickLoop(_, _, _, _)
\* for (const data of Array.from(activeExecutions.values()))
TickLoop(st, snapshot, nowv, activeT) ==
    IF snapshot = <<>> THEN st
    ELSE TickLoop(TickExec(st, Head(snapshot), nowv, activeT),
                  Tail(snapshot), nowv, activeT)

\* the tick without its enabled check
TickResultWhenDisabled ==
    StatusAfterLoop(TickLoop(State, activeExecutions, now, activeTerminal))

TickResult ==
    IF ~config.enabled THEN [State EXCEPT !.bar.visible = FALSE]
    ELSE StatusAfterLoop(TickLoop(State, activeExecutions, now, activeTerminal))

----------------------------------------------------------------------------
(* Actions *)

\* A record that no callback can reach any more (its execution has ended, no alert
\* on screen and no open quick pick holds it) is garbage: it is written NoData.
Reachable(e, ph, al, m) ==
    \/ ph[e] = "running"
    \/ \E a \in al : a.owner = e
    \/ m.open /\ m.exec = e

Collected(d, ph, al, m) ==
    [e \in Execs |-> IF Reachable(e, ph, al, m) THEN d[e] ELSE NoData]

\* the callback's result becomes the next state; the quick pick becomes m
Commit(st, m) ==
    /\ data' = Collected(st.data, phase, st.alerts, m)
    /\ activeExecutions' = st.reg
    /\ alerts' = st.alerts
    /\ isNotificationShowing' = st.showing
    /\ lastNotificationCloseTime' = st.lastClose
    /\ flashing' = st.flashing
    /\ disposed' = st.disposed
    /\ termLog' = st.termLog
    /\ config' = st.config
    /\ statusBar' = st.bar
    /\ escalated' = [e \in Execs |-> Reachable(e, phase, st.alerts, m) /\ st.owed[e]]
    /\ menu' = m

WithinLog(st) == \A e \in Execs : Len(st.termLog[e]) <= MaxInvocations

filterVars == <<fEnabled, fPatterns, fName, fResult>>

resetVars == <<rGlobal, rWorkspace, rHasWorkspace, rDone>>

NotATick == ticked' = FALSE

\* time passes
Advance(d) ==
    /\ advances < MaxAdvances
    /\ now' = now + d
    /\ advances' = advances + 1
    /\ NotATick
    /\ UNCHANGED <<settingsPanel, escalated, statusBar, config, phase, startedOn, activeExecutions, data, alerts,
                   isNotificationShowing, lastNotificationCloseTime, flashing,
                   activeTerminal, disposed, termLog, menu, filterVars, resetVars>>

\* the setInterval callback
Tick ==
    /\ WithinLog(TickResult)
    /\ Commit(TickResult, menu)
    /\ ticked' = TRUE
    /\ UNCHANGED <<settingsPanel, now, advances, phase, startedOn, activeTerminal, filterVars, resetVars>>

RunningOn(t) == {e \in Execs : phase[e] = "running" /\ data[e].terminal = t}

\* onDidStartTerminalShellExecution, up to the read loop
StartExecution(e, t) ==
    /\ phase[e] = "new"
    /\ \A f \in Execs : ExecIndex(f) < ExecIndex(e) => phase[f] # "new"
    /\ ~disposed[t]
    /\ \A f \in Execs : phase[f] = "running" => startedOn[f] # t
    /\ phase' = [phase EXCEPT ![e] = "running"]
    /\ startedOn' = [startedOn EXCEPT ![e] = t]
    /\ IF IsTerminalExcluded(config, TerminalName(t))
       THEN UNCHANGED <<data, activeExecutions>>
       ELSE /\ data' = [data EXCEPT ![e] = NewData(t, now)]
            /\ activeExecutions' = Append(Without(activeExecutions, e), e)
    /\ NotATick
    /\ UNCHANGED <<settingsPanel, escalated, statusBar, now, advances, config, alerts, isNotificationShowing,
                   lastNotificationCloseTime, flashing, activeTerminal, disposed,
                   termLog, menu, filterVars, resetVars>>

\* activity that also clears the total latch
OnActivityClearingTotal(st, e, nowv) ==
    CallDismiss([st EXCEPT !.data[e].lastActivity = nowv,
                           !.data[e].idleNotified = FALSE,
                           !.data[e].obnoxiousNotified = FALSE,
                           !.data[e].totalNotified = FALSE],
                e, nowv)

\* activity that clears the idle latch alone
OnActivityClearingIdleOnly(st, e, nowv) ==
    CallDismiss([st EXCEPT !.data[e].lastActivity = nowv,
                           !.data[e].idleNotified = FALSE],
                e, nowv)

\* one iteration of 'for await (const _ of event.execution.read())'
OnActivity(st, e, nowv) ==
    CallDismiss([st EXCEPT !.data[e].lastActivity = nowv,
                           !.data[e].idleNotified = FALSE,
                           !.data[e].obnoxiousNotified = FALSE],
                e, nowv)

Activity(e) ==
    /\ phase[e] = "running"
    /\ HasData(e)
    /\ Commit(OnActivity(State, e, now), menu)
    /\ NotATick
    /\ UNCHANGED <<settingsPanel, now, advances, phase, startedOn, activeTerminal, filterVars, resetVars>>

\* an end that keeps the record while an alert of the execution is on screen
EndExecutionWhenQuiet(e) ==
    /\ phase[e] = "running"
    /\ phase' = [phase EXCEPT ![e] = "ended"]
    /\ startedOn' = [startedOn EXCEPT ![e] = None]
    /\ activeExecutions' = IF \E a \in alerts : a.owner = e THEN activeExecutions
                           ELSE Without(activeExecutions, e)
    /\ data' = Collected(data, phase', alerts, menu)
    /\ NotATick
    /\ UNCHANGED <<settingsPanel, escalated, statusBar, now, advances, config, alerts,
                   isNotificationShowing, lastNotificationCloseTime, flashing,
                   activeTerminal, disposed, termLog, menu, filterVars, resetVars>>

\* the read loop's finally and onDidEndTerminalShellExecution
EndExecution(e) ==
    /\ phase[e] = "running"
    /\ phase' = [phase EXCEPT ![e] = "ended"]
    /\ startedOn' = [startedOn EXCEPT ![e] = None]
    /\ activeExecutions' = Without(activeExecutions, e)
    /\ data' = Collected(data, phase', alerts, menu)
    /\ NotATick
    /\ UNCHANGED <<settingsPanel, escalated, statusBar, now, advances, config, alerts,
                   isNotificationShowing, lastNotificationCloseTime, flashing,
                   activeTerminal, disposed, termLog, menu, filterVars, resetVars>>

\* The host reports the end of an execution twice, by the end of its output
\* stream and by onDidEndTerminalShellExecution: EndExecution is the first of the
\* two activeExecutions.delete calls, this is the second.
RemoveAgain(e) ==
    /\ phase[e] = "ended"
    /\ phase' = [phase EXCEPT ![e] = "removed"]
    /\ activeExecutions' = Without(activeExecutions, e)
    /\ NotATick
    /\ UNCHANGED <<settingsPanel, escalated, statusBar, now, advances, config, startedOn, data, alerts,
                   isNotificationShowing, lastNotificationCloseTime, flashing,
                   activeTerminal, disposed, termLog, menu, filterVars, resetVars>>

SnoozeMinutes == {5, 10, 15}

\* a snooze that leaves the total latch as it is
SnoozeKeepingTotal(st, e, mins, escalate, nowv) ==
    [st EXCEPT
       !.data[e].snoozeUntil = nowv + mins * MsPerMinute,
       !.data[e].idleNotified = FALSE,
       !.data[e].obnoxiousNotified = FALSE,
       !.data[e].forceNextObnoxious = IF escalate THEN TRUE ELSE @,
       !.owed[e] = @ \/ st.config.obnoxiousSnooze]

\* the Snooze branch of an alert's handler and of the menu
Snooze(st, e, mins, escalate, nowv) ==
    [st EXCEPT
       !.data[e].snoozeUntil = nowv + mins * MsPerMinute,
       !.data[e].idleNotified = FALSE,
       !.data[e].obnoxiousNotified = FALSE,
       !.data[e].totalNotified = FALSE,
       !.data[e].forceNextObnoxious = IF escalate THEN TRUE ELSE @,
       !.owed[e] = @ \/ st.config.obnoxiousSnooze]

\* a Reset Timer that also clears the total latch
ResetTimerClearingTotal(st, e, nowv) ==
    [st EXCEPT
       !.data[e].lastActivity = nowv,
       !.data[e].idleNotified = FALSE,
       !.data[e].obnoxiousNotified = FALSE,
       !.data[e].totalNotified = FALSE]

\* the Reset Timer branch of the idle alert's handler and of the menu
ResetTimer(st, e, nowv) ==
    [st EXCEPT
       !.data[e].lastActivity = nowv,
       !.data[e].idleNotified = FALSE,
       !.data[e].obnoxiousNotified = FALSE]

ModalButtons(a) ==
    (IF a.kind = "idle" THEN {"Reset Timer"} ELSE {})
        \cup {"Snooze", "Terminate", "Exclude Terminal", "none"}

\* lines 592-614 and 677-697: the '.then' of a modal
ModalHandler(st, a, s, mins, nowv) ==
    LET e == a.owner
        st1 == StopFlashing(Closed(st, a, nowv))
    IN  CASE s = "Reset Timer" -> ResetTimer(st1, e, nowv)
          [] s = "Terminate" -> TerminateExecution(st1, e, "alert")
          [] s = "Exclude Terminal" -> HandleExcludeAction(st1, e)
          [] s = "Snooze" -> Snooze(st1, e, mins, a.obnoxiousSnooze, nowv)
          [] OTHER -> st1

\* the user answers (or closes) the modal of an obnoxious alert
ModalResponse(a, s, mins) ==
    /\ a \in alerts
    /\ a.obnoxious
    /\ s \in ModalButtons(a)
    /\ (s # "Snooze") => mins = 0
    /\ (s = "Snooze") => mins \in SnoozeMinutes
    /\ WithinLog(ModalHandler(State, a, s, mins, now))
    /\ Commit(ModalHandler(State, a, s, mins, now), menu)
    /\ NotATick
    /\ UNCHANGED <<settingsPanel, now, advances, phase, startedOn, activeTerminal, filterVars, resetVars>>

\* a cancel that leaves the record's dismissal reference in place
CancelHandlerKeepingReference(st, a, nowv) == Closed(st, a, nowv)

\* token.onCancellationRequested of a quiet notification
CancelHandler(st, a, nowv) ==
    Closed([st EXCEPT !.data[a.owner].dismissNotification = None], a, nowv)

CancelQuiet(a) ==
    /\ a \in alerts
    /\ ~a.obnoxious
    /\ Commit(CancelHandler(State, a, now), menu)
    /\ NotATick
    /\ UNCHANGED <<settingsPanel, now, advances, phase, startedOn, activeTerminal, filterVars, resetVars>>

\* the focused terminal changes
FocusTerminal(t) ==
    /\ t # activeTerminal
    /\ t \in Terminals => ~disposed[t]
    /\ activeTerminal' = t
    /\ NotATick
    /\ UNCHANGED <<settingsPanel, escalated, statusBar, now, advances, config, phase, startedOn, activeExecutions, data,
                   alerts, isNotificationShowing, lastNotificationCloseTime,
                   flashing, disposed, termLog, menu, filterVars, resetVars>>

\* the settings panel's 'update' message (or an edit of the settings file):
\* config.update(key, value), then onDidChangeConfiguration
UpdateSetting(key, value) ==
    /\ config[key] # value
    /\ Commit(ConfigurationChanged([State EXCEPT !.config[key] = value]), menu)
    /\ NotATick
    /\ UNCHANGED <<settingsPanel, now, advances, phase, startedOn, activeTerminal, filterVars, resetVars>>

\* the openSettings command, lines 342-349: the panel is created unless it exists
\* (an existing panel is revealed, which changes nothing here)
OpenSettings ==
    /\ ~settingsPanel
    /\ settingsPanel' = TRUE
    /\ NotATick
    /\ UNCHANGED <<escalated, statusBar, now, advances, config, phase, startedOn,
                   activeExecutions, data, alerts, isNotificationShowing,
                   lastNotificationCloseTime, flashing, activeTerminal, disposed,
                   termLog, menu, filterVars, resetVars>>

\* settingsPanel.onDidDispose, lines 461-464: the panel is closed
PanelDisposed ==
    /\ settingsPanel
    /\ settingsPanel' = FALSE
    /\ Commit(StopFlashing(State), menu)
    /\ NotATick
    /\ UNCHANGED <<now, advances, phase, startedOn, activeTerminal, filterVars, resetVars>>

----------------------------------------------------------------------------
(* showMenu *)

NoMenu ==
    [open |-> FALSE, terminal |-> None, exec |-> None, obnoxiousSnooze |-> FALSE,
     globalValue |-> FALSE, workspaceValue |-> FALSE, hasWorkspace |-> FALSE]

RECURSIVE FindByTerminal(_, _, _)
\* Array.from(activeExecutions.values()).find((d) => d.terminal === t)
FindByTerminal(reg, d, t) ==
    IF reg = <<>> \/ t = None THEN None
    ELSE IF d[Head(reg)].terminal = t THEN Head(reg)
    ELSE FindByTerminal(Tail(reg), d, t)

\* lines 185-259: everything showMenu reads before it awaits the selection
MenuOpen ==
    /\ ~menu.open
    /\ menu' = [open |-> TRUE,
                terminal |-> activeTerminal,
                exec |-> FindByTerminal(activeExecutions, data, activeTerminal),
                obnoxiousSnooze |-> config.obnoxiousSnooze,
                globalValue |-> config.autoTerminateGlobal = "on",
                workspaceValue |-> config.autoTerminateWorkspace = "on",
                hasWorkspace |-> config.hasWorkspace]
    /\ NotATick
    /\ UNCHANGED <<settingsPanel, escalated, statusBar, now, advances, config, phase, startedOn, activeExecutions, data,
                   alerts, isNotificationShowing, lastNotificationCloseTime,
                   flashing, activeTerminal, disposed, termLog, filterVars, resetVars>>

MenuItems(m) ==
    (IF m.exec # None THEN {"Reset Timer", "Snooze", "Terminate"} ELSE {})
        \cup (IF m.hasWorkspace THEN {"Toggle Workspace"} ELSE {})
        \cup {"Toggle Global"}
        \cup (IF m.terminal # None THEN {"Exclude Current Terminal"} ELSE {})
        \cup {"none"}

OnOff(b) == IF b THEN "on" ELSE "off"

\* lines 298-322: Exclude Current Terminal when the terminal has no tracked execution
ExcludeFallback(st, t) ==
    LET name == TerminalName(t)
        patterns == FilterNonEmpty(MapTrim(Split(st.config.excludePatterns, ",")))
    IN  IF ~Includes(patterns, name)
        THEN ConfigurationChanged(
               [st EXCEPT
                  !.config.excludePatterns = Join(Append(patterns, name), <<",", " ">>),
                  !.config.enableExclusions = TRUE])
        ELSE st

\* lines 261-339: the selection's effect
MenuHandler(st, m, sel, mins, nowv) ==
    CASE sel = "Reset Timer" ->
            CallDismiss(StopFlashing(ResetTimer(st, m.exec, nowv)), m.exec, nowv)
      [] sel = "Snooze" ->
            CallDismiss(StopFlashing(Snooze(st, m.exec, mins, m.obnoxiousSnooze, nowv)),
                        m.exec, nowv)
      [] sel = "Terminate" -> TerminateExecution(st, m.exec, "menu")
      [] sel = "Exclude Current Terminal" ->
            LET found == FindByTerminal(st.reg, st.data, m.terminal)
            IN  IF found # None THEN HandleExcludeAction(st, found)
                ELSE ExcludeFallback(st, m.terminal)
      [] sel = "Toggle Workspace" ->
            ConfigurationChanged(
              [st EXCEPT !.config.autoTerminateWorkspace = OnOff(~m.workspaceValue)])
      [] sel = "Toggle Global" ->
            ConfigurationChanged(
              [st EXCEPT !.config.autoTerminateGlobal = OnOff(~m.globalValue)])
      [] OTHER -> st

\* the user picks an item of the quick pick (or closes it)
MenuSelect(sel, mins) ==
    /\ menu.open
    /\ sel \in MenuItems(menu)
    /\ (sel # "Snooze") => mins = 0
    /\ (sel = "Snooze") => mins \in SnoozeMinutes
    /\ WithinLog(MenuHandler(State, menu, sel, mins, now))
    /\ Commit(MenuHandler(State, menu, sel, mins, now), NoMenu)
    /\ NotATick
    /\ UNCHANGED <<settingsPanel, now, advances, phase, startedOn, activeTerminal, filterVars, resetVars>>

----------------------------------------------------------------------------
(* Specifications *)

CoreInit(configs) ==
    /\ now = ClockStart
    /\ advances = 0
    /\ config \in configs
    /\ phase = [e \in Execs |-> "new"]
    /\ startedOn = [e \in Execs |-> None]
    /\ activeExecutions = <<>>
    /\ data = [e \in Execs |-> NoData]
    /\ alerts = {}
    /\ isNotificationShowing = FALSE
    /\ lastNotificationCloseTime = 0
    /\ flashing = FALSE
    /\ activeTerminal = "t1"
    /\ disposed = [t \in Terminals |-> FALSE]
    /\ termLog = [e \in Execs |-> <<>>]
    /\ menu = NoMenu
    /\ ticked = FALSE
    /\ statusBar = CreateStatusBar(config)
    /\ escalated = [e \in Execs |-> FALSE]
    /\ settingsPanel = FALSE

\* no option has a value of its own in either scope
NoOverrides ==
    /\ rGlobal = {}
    /\ rWorkspace = {}
    /\ rHasWorkspace = TRUE
    /\ rDone = FALSE

InitWith(configs) ==
    /\ CoreInit(configs)
    /\ fEnabled = FALSE
    /\ fPatterns = <<>>
    /\ fName = <<>>
    /\ fResult = "unset"
    /\ NoOverrides

AlertRecords ==
    [owner : Execs, kind : {"idle", "total"}, obnoxious : BOOLEAN,
     obnoxiousSnooze : BOOLEAN]

AllModalButtons == {"Reset Timer", "Snooze", "Terminate", "Exclude Terminal", "none"}

AllMenuItems ==
    {"Reset Timer", "Snooze", "Terminate", "Exclude Current Terminal",
     "Toggle Workspace", "Toggle Global", "none"}

\* The events of the host and of the user, each drawn from the scope's sets.
EventsOf(sc) ==
    \/ \E d \in sc.steps : advances < sc.maxAdvances /\ Advance(d)
    \/ Tick
    \/ \E p \in sc.starts : advances <= sc.startBy /\ StartExecution(p[1], p[2])
    \/ \E e \in Execs : Activity(e)
    \/ \E e \in Execs : EndExecution(e)
    \/ \E a \in AlertRecords, s \in sc.buttons, mins \in sc.snooze \cup {0} :
          ModalResponse(a, s, mins)
    \/ \E a \in AlertRecords : CancelQuiet(a)
    \/ MenuOpen
    \/ \E sel \in sc.items, mins \in sc.snooze \cup {0} : MenuSelect(sel, mins)

\* ... and the focus moving between the scope's terminals
NextOf(sc) ==
    \/ EventsOf(sc)
    \/ \E t \in sc.focus : FocusTerminal(t)

\* ... and the settings changing under the running executions
UpdatesOf(sc) == \E u \in sc.updates : UpdateSetting(u[1], u[2])

\* Two executions in two terminals, alerts of both tiers, dismissals and Reset Timer.
QuietConfig == [BaseConfig EXCEPT !.idleTimeout = 1]
ObnoxiousConfig == [BaseConfig EXCEPT !.idleTimeout = 1, !.obnoxiousMode = TRUE]

Configs == {QuietConfig, ObnoxiousConfig}

Scope ==
    [starts |-> {<<"e1", "t1">>, <<"e2", "t2">>}, focus |-> Terminals,
     steps |-> {1000, 60000}, maxAdvances |-> MaxAdvances, startBy |-> 0,
     snooze |-> {}, buttons |-> {"Reset Timer", "none"},
     items |-> {"Reset Timer", "none"}]

Init == InitWith(Configs)

Next == NextOf(Scope)

Spec == Init /\ [][Next]_vars

----------------------------------------------------------------------------
(* The exclusion filter on its own: every option value and terminal name  *)
(* up to the bounds, and one call of isTerminalExcluded.                  *)

PatternAlphabet == {"a", "B", "*", ",", " ", "."}
NameAlphabet == {"a", "A", "b", ".", " "}

StringsUpTo(alphabet, n) == UNION {[1..k -> alphabet] : k \in 0..n}

InitFilter ==
    /\ CoreInit({BaseConfig})
    /\ fEnabled \in BOOLEAN
    /\ fPatterns \in StringsUpTo(PatternAlphabet, MaxPatLen)
    /\ fName \in StringsUpTo(NameAlphabet, MaxNameLen)
    /\ fResult = "unset"
    /\ NoOverrides

ApplyFilter ==
    /\ fResult = "unset"
    /\ fResult' = IF ExcludedBy(fEnabled, fPatterns, fName) THEN "true" ELSE "false"
    /\ NotATick
    /\ UNCHANGED <<settingsPanel, escalated, statusBar, now, advances, config, phase, startedOn, activeExecutions, data,
                   alerts, isNotificationShowing, lastNotificationCloseTime,
                   flashing, activeTerminal, disposed, termLog, menu,
                   fEnabled, fPatterns, fName, resetVars>>

SpecFilter == InitFilter /\ [][ApplyFilter]_vars

RECURSIVE GlobMatches(_, _)
\* the pattern matches the whole name: '*' is any run of characters, every other
\* character stands for itself, letters compared without case
GlobMatches(p, name) ==
    IF p = <<>> THEN name = <<>>
    ELSE IF Head(p) = "*"
         THEN \/ GlobMatches(Tail(p), name)
              \/ name # <<>> /\ GlobMatches(p, Tail(name))
    ELSE /\ name # <<>>
         /\ Lower(Head(p)) = Lower(Head(name))
         /\ GlobMatches(Tail(p), Tail(name))

\* the non-empty, trimmed entries of the comma-separated list
PatternEntries(patterns) ==
    LET parts == Split(patterns, ",")
    IN  {Trim(parts[i]) : i \in 1..Len(parts)} \ {<<>>}

\* C10: the filter is true exactly when exclusions are enabled and some non-empty
\* trimmed entry matches the whole terminal name; empty entries match nothing.
C10_FilterAsClaimed ==
    fResult # "unset" =>
        ((fResult = "true") <=>
            (fEnabled /\ \E p \in PatternEntries(fPatterns) : GlobMatches(p, fName)))

\* C10, away from the empty terminal name: there the code agrees with the claim
C10_FilterOnNamedTerminals ==
    (fResult # "unset" /\ fName # <<>>) =>
        ((fResult = "true") <=>
            (fEnabled /\ \E p \in PatternEntries(fPatterns) : GlobMatches(p, fName)))

----------------------------------------------------------------------------
(* Claims on two executions (Spec) *)

NewAlerts == alerts' \ alerts

\* C1: at most one alert is on screen at any instant; a step raises an alert only
\* when none is showing, and raises at most one.
C1_OneAlertAtATime ==
    /\ [](Cardinality(alerts) <= 1)
    /\ [][NewAlerts # {} => (alerts = {} /\ Cardinality(NewAlerts) = 1)]_vars

\* two tracked executions are past the idle threshold, one has its alert on screen
\* and the other is held back
C1_Witness ==
    /\ Cardinality(alerts) = 1
    /\ ticked
    /\ \E e, f \in Execs :
          /\ e # f /\ Tracked(e) /\ Tracked(f)
          /\ \E a \in alerts : a.owner = e
          /\ ~data[f].idleNotified
          /\ Idle(data[f], now) >= config.idleTimeout

\* C7: an activity signal on a tracked execution sets lastActivity to now, clears
\* idleAlerted and obnoxiousAlerted, and changes nothing else of it (the dismissal
\* reference apart) and nothing of any other execution.
C7_ActivityFrame ==
    [][\A e \in Execs :
         (Tracked(e) /\ Activity(e)) =>
            /\ data'[e].lastActivity = now
            /\ ~data'[e].idleNotified
            /\ ~data'[e].obnoxiousNotified
            /\ data'[e].totalNotified = data[e].totalNotified
            /\ data'[e].forceNextObnoxious = data[e].forceNextObnoxious
            /\ data'[e].snoozeUntil = data[e].snoozeUntil
            /\ data'[e].terminationAttempts = data[e].terminationAttempts
            /\ data'[e].startTime = data[e].startTime
            /\ \A f \in Execs \ {e} : data'[f] = data[f]]_vars

\* activity has just arrived on an execution whose total alert had been raised,
\* while the other execution keeps its idle latch
C7_Witness ==
    \E e, f \in Execs :
        /\ e # f /\ Tracked(e) /\ Tracked(f)
        /\ data[e].lastActivity = now
        /\ data[e].startTime < now
        /\ data[e].totalNotified
        /\ ~data[e].idleNotified
        /\ data[f].idleNotified
        /\ data[f].lastActivity < now

----------------------------------------------------------------------------
(* One execution and the termination protocol (SpecTerm): auto-terminate   *)
(* after one idle minute, Terminate from the modal and from the menu, with *)
(* useSigInt off, and on with every hardTerminateRetries up to the bound.  *)

MaxConfiguredRetries == 3
TermAdvances == 2

TermBase ==
    [BaseConfig EXCEPT !.idleTimeout = 1, !.autoTerminateGlobal = "on"]

TermConfigs ==
    {[TermBase EXCEPT !.obnoxiousMode = ob] : ob \in BOOLEAN}
    \cup {[TermBase EXCEPT !.obnoxiousMode = TRUE, !.useSigInt = TRUE,
                           !.hardTerminateRetries = k] :
            k \in 0..MaxConfiguredRetries}

TermScope ==
    [starts |-> {<<"e1", "t1">>}, focus |-> {"t1", None},
     steps |-> {1000, 60000}, maxAdvances |-> TermAdvances, startBy |-> 0,
     snooze |-> {}, buttons |-> {"Terminate", "none"},
     items |-> {"Terminate", "none"}]

InitTerm == InitWith(TermConfigs)

NextTerm == NextOf(TermScope)

SpecTerm == InitTerm /\ [][NextTerm]_vars

\* the calls made on the terminal of e, oldest first
Invocations(e) == [i \in 1..Len(termLog[e]) |-> termLog[e][i].what]

LastCall(e) == termLog[e][Len(termLog[e])]

\* C2: with useSigInt on and hardTerminateRetries = k configured, the invocations
\* on an execution that has not ended are a signal on each of 1..k and the destroy
\* on invocation k+1, for every k >= 0.
C2_SignalsThenDestroy ==
    \A e \in Execs :
        (config.useSigInt /\ phase[e] = "running") =>
            \A i \in 1..Len(termLog[e]) :
                /\ i <= config.hardTerminateRetries => Invocations(e)[i] = "signal"
                /\ i = config.hardTerminateRetries + 1 => Invocations(e)[i] = "destroy"

\* C2 for the values the code does not replace: k >= 1
C2_SignalsThenDestroyForPositiveRetries ==
    \A e \in Execs :
        (config.useSigInt /\ phase[e] = "running" /\ config.hardTerminateRetries >= 1) =>
            \A i \in 1..Len(termLog[e]) :
                /\ i <= config.hardTerminateRetries => Invocations(e)[i] = "signal"
                /\ i = config.hardTerminateRetries + 1 => Invocations(e)[i] = "destroy"

\* k = 3: the four invocations signal, signal, signal, destroy have been made
C2_FourInvocations ==
    \E e \in Execs :
        /\ config.useSigInt /\ config.hardTerminateRetries = 3
        /\ phase[e] = "running"
        /\ Invocations(e) = <<"signal", "signal", "signal", "destroy">>

\* C3: with useSigInt off, every invocation of the termination protocol, by the
\* tick, an alert or the menu, is one destroy of the terminal, never a signal, and
\* terminationAttempts keeps its value.
C3_DestroyAtOnce ==
    [][~config.useSigInt =>
         \A e \in Execs :
            termLog'[e] # termLog[e] =>
               /\ Len(termLog'[e]) = Len(termLog[e]) + 1
               /\ SubSeq(termLog'[e], 1, Len(termLog[e])) = termLog[e]
               /\ termLog'[e][Len(termLog'[e])].what = "destroy"
               /\ disposed'[data[e].terminal]
               /\ data'[e].terminationAttempts = data[e].terminationAttempts]_vars

\* the tick, an alert and the menu have each invoked the protocol with useSigInt off
C3_Witness ==
    \E e \in Execs :
        /\ ~config.useSigInt
        /\ HasData(e)
        /\ {termLog[e][i].by : i \in 1..Len(termLog[e])} = {"tick", "alert", "menu"}
        /\ disposed[data[e].terminal]
        /\ data[e].terminationAttempts = 0

\* C4: a tick with monitoring and auto-terminate on invokes the termination
\* protocol for every evaluated execution whose idle time has reached
\* autoTerminateTimeout minutes (a positive number of them), whether or not an
\* alert is showing or the cooldown is running.
C4_AutoTerminateUngated ==
    [][Tick =>
         \A e \in Execs :
            ( /\ Tracked(e)
              /\ config.enabled
              /\ AutoTerminateEnabled(config)
              /\ ~Skipped(State, e, now, activeTerminal)
              /\ Idle(data[e], now) >= config.autoTerminateTimeout * 60 )
            => /\ Len(termLog'[e]) = Len(termLog[e]) + 1
               /\ termLog'[e][Len(termLog'[e])].by = "tick"]_vars

\* a tick has terminated an execution that had gone idle for the auto-terminate
\* time behind the total alert, which is still on screen and kept the idle alert back
C4_Witness ==
    \E e \in Execs :
        /\ ticked
        /\ Tracked(e)
        /\ AutoTerminateEnabled(config)
        /\ Idle(data[e], now) >= config.autoTerminateTimeout * 60
        /\ \E a \in alerts : a.owner = e /\ a.kind = "total"
        /\ ~data[e].idleNotified
        /\ termLog[e] # <<>>
        /\ LastCall(e).by = "tick"

\* C5: a tick with auto-terminate on invokes the termination protocol for every
\* evaluated execution whose idle time or whose total run time has reached
\* autoTerminateTimeout minutes.
C5_RunTimeOrIdle ==
    [][Tick =>
         \A e \in Execs :
            ( /\ Tracked(e)
              /\ config.enabled
              /\ AutoTerminateEnabled(config)
              /\ ~Skipped(State, e, now, activeTerminal)
              /\ \/ Idle(data[e], now) >= config.autoTerminateTimeout * 60
                 \/ Elapsed(data[e], now) >= config.autoTerminateTimeout * 60 )
            => Len(termLog'[e]) = Len(termLog[e]) + 1]_vars

----------------------------------------------------------------------------
(* One execution and the idle alert (SpecIdle): every combination of       *)
(* idleTimeout, obnoxiousModeTime and obnoxiousMode from the sets below,   *)
(* with the escalating snooze, Reset Timer, activity and dismissals.       *)

IdleTimeouts == {1, 2}
ObnoxiousTimes == {<<>>, <<1>>, <<3>>}
IdleAdvances == 2

IdleConfigs ==
    {[BaseConfig EXCEPT !.idleTimeout = it, !.obnoxiousModeTime = ot,
                        !.obnoxiousMode = ob, !.obnoxiousSnooze = TRUE] :
        it \in IdleTimeouts, ot \in ObnoxiousTimes, ob \in BOOLEAN}

IdleScope ==
    [starts |-> {<<"e1", "t1">>}, focus |-> {},
     steps |-> {1000, 3000, 300000}, maxAdvances |-> IdleAdvances, startBy |-> 0,
     snooze |-> {5}, buttons |-> {"Reset Timer", "Snooze", "none"},
     items |-> {"Reset Timer", "Snooze", "none"}]

InitIdle == InitWith(IdleConfigs)

\* the focus stays on the terminal of the execution
NextIdle == EventsOf(IdleScope)

SpecIdle == InitIdle /\ [][NextIdle]_vars

NewIdleAlerts(e) == {a \in alerts' \ alerts : a.owner = e /\ a.kind = "idle"}

\* C6: once an idle alert has been raised for an execution and idleAlerted is true,
\* no step raises a further idle alert for it, quiet or obnoxious.
C6_OneIdleAlertPerCrossing ==
    [][\A e \in Execs : data[e].idleNotified => NewIdleAlerts(e) = {}]_vars

\* C6 amended: while idleAlerted is true no quiet idle alert is raised, and while
\* obnoxiousAlerted is true no idle alert at all; the one idle alert raised while
\* idleAlerted is true is the obnoxious one at idle >= obnoxiousModeTime.
C6_LatchedIdleAlerts ==
    [][\A e \in Execs : \A a \in NewIdleAlerts(e) :
          /\ ~data[e].obnoxiousNotified
          /\ data[e].idleNotified =>
                /\ a.obnoxious
                /\ IsPastObnoxious(Idle(data[e], now), config)]_vars

\* a tick has evaluated an execution that is past the idle threshold with the gate
\* open, and the latch alone has kept the alert from being raised again
C6_Witness ==
    \E e \in Execs :
        /\ ticked
        /\ Tracked(e)
        /\ data[e].idleNotified
        /\ ~IsSnoozed(data[e], now)
        /\ IsPastIdle(Idle(data[e], now), config)
        /\ alerts = {}
        /\ IdleGateOpen(State, now)

----------------------------------------------------------------------------
(* One execution and the snooze (SpecSnooze): Snooze 5, 10 and 15 from the *)
(* modal of an idle or total alert and from the menu, with and without the *)
(* escalating snooze and auto-terminate, and time running past the alert   *)
(* and auto-terminate thresholds and up to the end of the snooze.          *)

SnoozeAdvances == 2

SnoozeConfigs ==
    {[BaseConfig EXCEPT !.idleTimeout = 1, !.obnoxiousMode = ob,
                        !.obnoxiousSnooze = os, !.autoTerminateGlobal = at] :
        ob \in BOOLEAN, os \in BOOLEAN, at \in {"unset", "on"}}

SnoozeScope ==
    [starts |-> {<<"e1", "t1">>}, focus |-> {},
     steps |-> {1000, 60000, 300000}, maxAdvances |-> SnoozeAdvances, startBy |-> 0,
     snooze |-> SnoozeMinutes, buttons |-> {"Snooze", "none"},
     items |-> {"Snooze", "none"}]

InitSnooze == InitWith(SnoozeConfigs)

NextSnooze == EventsOf(SnoozeScope)

SpecSnooze == InitSnooze /\ [][NextSnooze]_vars

\* this step is Snooze N on execution e, from a modal or from the menu
SnoozeStep(e, mins) ==
    \/ \E a \in alerts : a.owner = e /\ ModalResponse(a, "Snooze", mins)
    \/ menu.open /\ menu.exec = e /\ MenuSelect("Snooze", mins)

\* C8: Snooze N, N in {5, 10, 15}, from the modal of an idle or a total alert or
\* from the menu, sets snoozeUntil of a running execution to now + N*60000 and
\* clears idleAlerted, obnoxiousAlerted and totalAlerted.
C8_SnoozeSetsDeadline ==
    [][\A e \in Execs, mins \in SnoozeMinutes :
          (phase[e] = "running" /\ SnoozeStep(e, mins)) =>
             /\ data'[e].snoozeUntil = now + mins * 60000
             /\ ~data'[e].idleNotified
             /\ ~data'[e].obnoxiousNotified
             /\ ~data'[e].totalNotified]_vars

\* Snooze 15 has just been applied to an execution that had run past the total
\* timeout and sat idle past the idle timeout; no latch and no alert is left
C8_Witness ==
    \E e \in Execs :
        /\ phase[e] = "running" /\ Tracked(e)
        /\ data[e].snoozeUntil = now + 15 * 60000
        /\ Elapsed(data[e], now) >= TotalTimeoutSecs(config)
        /\ IsPastIdle(Idle(data[e], now), config)
        /\ ~data[e].idleNotified /\ ~data[e].obnoxiousNotified /\ ~data[e].totalNotified
        /\ alerts = {}

\* C9: a tick leaves an execution with now < snoozeUntil as it is: no alert is
\* raised for it, no field of its record changes, nothing is done to its terminal.
C9_SnoozedIsExempt ==
    [][Tick =>
         \A e \in Execs :
            (Tracked(e) /\ now < data[e].snoozeUntil) =>
               /\ data'[e] = data[e]
               /\ termLog'[e] = termLog[e]
               /\ disposed'[data[e].terminal] = disposed[data[e].terminal]
               /\ \A a \in alerts' \ alerts : a.owner # e]_vars

\* a tick has passed over a snoozed execution that is past the idle, total and
\* auto-terminate thresholds with auto-terminate on and the gate open
C9_Witness ==
    \E e \in Execs :
        /\ ticked
        /\ Tracked(e)
        /\ now < data[e].snoozeUntil
        /\ config.enabled /\ AutoTerminateEnabled(config)
        /\ Idle(data[e], now) >= AutoTerminateSecs(config)
        /\ Elapsed(data[e], now) >= TotalTimeoutSecs(config)
        /\ ~data[e].idleNotified /\ ~data[e].totalNotified
        /\ IdleGateOpen(State, now)
        /\ alerts = {}
        /\ termLog[e] = <<>>

----------------------------------------------------------------------------
(* Two executions and the exclusions (SpecExclude): the patterns and the   *)
(* enableExclusions flag change under running executions, Exclude Terminal *)
(* from the modal and from the menu, and both removals of an ended         *)
(* execution.                                                              *)

ExcludeAdvances == 1

ExcludeConfigs ==
    {[BaseConfig EXCEPT !.idleTimeout = 1, !.obnoxiousMode = ob] : ob \in BOOLEAN}

ExcludeScope ==
    [starts |-> {<<"e1", "t1">>, <<"e2", "t2">>},
     focus |-> Terminals,
     steps |-> {1000, 60000}, maxAdvances |-> ExcludeAdvances, startBy |-> 0,
     snooze |-> {}, buttons |-> {"Exclude Terminal", "none"},
     items |-> {"Exclude Current Terminal", "none"},
     updates |-> {<<"enableExclusions", TRUE>>, <<"enableExclusions", FALSE>>,
                  <<"excludePatterns", <<>>>>, <<"excludePatterns", <<"a">>>>}]

InitExclude == InitWith(ExcludeConfigs)

NextExclude ==
    \/ NextOf(ExcludeScope)
    \/ UpdatesOf(ExcludeScope)

SpecExclude == InitExclude /\ [][NextExclude]_vars

\* the terminal's name matches a non-empty trimmed entry of the patterns in force
NameExcluded(t) ==
    /\ config.enableExclusions
    /\ \E p \in PatternEntries(config.excludePatterns) : GlobMatches(p, TerminalName(t))

Occurrences(reg, e) == Cardinality({i \in 1..Len(reg) : reg[i] = e})

\* C11: an execution started in a terminal whose name is excluded gets no record;
\* started in any other terminal it gets exactly one record, under its own key,
\* with startTime = lastActivity = now, the three latches false, snoozeUntil = 0
\* and terminationAttempts = 0.
C11_StartCreatesFreshRecord ==
    [][\A e \in Execs, t \in Terminals :
          StartExecution(e, t) =>
             IF NameExcluded(t)
             THEN /\ activeExecutions' = activeExecutions
                  /\ data' = data
             ELSE /\ Occurrences(activeExecutions', e) = 1
                  /\ Len(activeExecutions') = Len(activeExecutions) + 1
                  /\ \A f \in Execs \ {e} : data'[f] = data[f]
                  /\ data'[e].terminal = t
                  /\ data'[e].startTime = now
                  /\ data'[e].lastActivity = now
                  /\ ~data'[e].idleNotified
                  /\ ~data'[e].obnoxiousNotified
                  /\ ~data'[e].totalNotified
                  /\ data'[e].snoozeUntil = 0
                  /\ data'[e].terminationAttempts = 0]_vars

\* one execution was started in an excluded terminal and has no record, the other
\* was started later in a terminal that is not excluded and has its fresh record
C11_Witness ==
    \E e, f \in Execs :
        /\ phase[e] = "running" /\ NameExcluded(startedOn[e]) /\ ~HasData(e) /\ ~Tracked(e)
        /\ phase[f] = "running" /\ ~NameExcluded(startedOn[f]) /\ Tracked(f)
        /\ data[f] = NewData(startedOn[f], now)

----------------------------------------------------------------------------
(* Two executions ending (SpecEnd): both removals of an ended execution,   *)
(* with alerts on screen and auto-terminate on for the one that goes on.   *)

EndAdvances == 2

EndConfigs ==
    {[BaseConfig EXCEPT !.idleTimeout = 1, !.obnoxiousMode = ob,
                        !.autoTerminateGlobal = "on"] : ob \in BOOLEAN}

EndScope ==
    [starts |-> {<<"e1", "t1">>, <<"e2", "t2">>}, focus |-> {},
     steps |-> {1000, 60000}, maxAdvances |-> EndAdvances, startBy |-> 0,
     snooze |-> {}, buttons |-> {"none"}, items |-> {"none"}]

InitEnd == InitWith(EndConfigs)

NextEnd ==
    \/ EventsOf(EndScope)
    \/ \E e \in Execs : RemoveAgain(e)

SpecEnd == InitEnd /\ [][NextEnd]_vars

Over(e) == phase[e] \in {"ended", "removed"}

\* C12: the end of an execution removes its record whatever state it is in, the
\* second removal changes nothing, and from then on no tick raises an alert for
\* the execution or invokes the termination protocol on it.
C12_EndRemovesRecord ==
    /\ [](\A e \in Execs : Over(e) => ~Tracked(e))
    /\ [][\A e \in Execs :
            /\ EndExecution(e) => ~InRegistry(activeExecutions', e)
            /\ RemoveAgain(e) =>
                  /\ activeExecutions' = activeExecutions
                  /\ data' = data
                  /\ alerts' = alerts]_vars
    /\ [][Tick =>
            \A e \in Execs :
               Over(e) => /\ \A a \in alerts' \ alerts : a.owner # e
                          /\ termLog'[e] = termLog[e]]_vars

\* an execution ended with its alert on screen and was removed twice; a minute
\* later a tick auto-terminated the other execution and left the ended one alone
C12_Witness ==
    \E e, f \in Execs :
        /\ ticked
        /\ phase[e] = "removed"
        /\ \E a \in alerts : a.owner = e
        /\ now - data[e].lastActivity >= AutoTerminateSecs(config) * MsPerSecond
        /\ AutoTerminateEnabled(config)
        /\ termLog[e] = <<>>
        /\ Tracked(f)
        /\ termLog[f] # <<>>

----------------------------------------------------------------------------
(* Claims on the exclusions (SpecExclude) *)

\* C13: in every state, each running execution whose terminal is not excluded
\* under the configuration in force has exactly one record in the registry.
C13_OneRecordPerMonitoredExecution ==
    \A e \in Execs :
        (phase[e] = "running" /\ ~IsTerminalExcluded(config, TerminalName(startedOn[e])))
            => Occurrences(activeExecutions, e) = 1

\* C13 for the part the code keeps: no execution has more than one record, and
\* none has a record once it has ended
C13_AtMostOneRecord ==
    \A e \in Execs :
        /\ Occurrences(activeExecutions, e) <= 1
        /\ Tracked(e) => phase[e] = "running"

----------------------------------------------------------------------------
(* One execution and the exclusions changing under it (SpecRefresh), with  *)
(* auto-terminate on.                                                      *)

RefreshAdvances == 2

RefreshConfigs ==
    {[BaseConfig EXCEPT !.idleTimeout = 1, !.obnoxiousMode = ob,
                        !.autoTerminateGlobal = "on"] : ob \in BOOLEAN}

RefreshScope ==
    [starts |-> {<<"e1", "t1">>}, focus |-> {},
     steps |-> {1000, 60000}, maxAdvances |-> RefreshAdvances, startBy |-> 0,
     snooze |-> {}, buttons |-> {"none"}, items |-> {"none"},
     updates |-> {<<"enableExclusions", TRUE>>, <<"enableExclusions", FALSE>>,
                  <<"excludePatterns", <<>>>>, <<"excludePatterns", <<"a">>>>}]

InitRefresh == InitWith(RefreshConfigs)

NextRefresh ==
    \/ EventsOf(RefreshScope)
    \/ UpdatesOf(RefreshScope)

SpecRefresh == InitRefresh /\ [][NextRefresh]_vars

\* this tick leaves execution e alone
PassedOver(e) ==
    /\ data'[e] = data[e]
    /\ termLog'[e] = termLog[e]
    /\ \A a \in alerts' \ alerts : a.owner # e

\* this tick monitors execution e: it auto-terminates it when its idle time has
\* reached the auto-terminate time, and raises its idle alert when one is due and
\* the gate is open
Monitored(e) ==
    /\ (AutoTerminateEnabled(config) /\ Idle(data[e], now) >= AutoTerminateSecs(config))
          => Len(termLog'[e]) = Len(termLog[e]) + 1
    /\ (IdleGateOpen(State, now) /\ IdleDecision(data[e], Idle(data[e], now), config) # "none")
          => \E a \in alerts' \ alerts : a.owner = e /\ a.kind = "idle"

\* C14: on every tick, a running execution whose terminal name is excluded under
\* the patterns now in force is left alone, and a running execution whose terminal
\* name is not excluded is monitored, whatever the patterns were before.
C14_RefreshOnRunning ==
    [][(Tick /\ config.enabled) =>
         \A e \in Execs :
            phase[e] = "running" =>
               IF NameExcluded(startedOn[e])
               THEN Tracked(e) => PassedOver(e)
               ELSE Tracked(e) /\ Monitored(e)]_vars

\* C14 for the executions that have a record: a change of the patterns stops and
\* resumes their monitoring from the next tick
C14_RefreshOnTracked ==
    [][(Tick /\ config.enabled) =>
         \A e \in Execs :
            Tracked(e) =>
               IF NameExcluded(startedOn[e])
               THEN PassedOver(e)
               ELSE Monitored(e)]_vars

\* a tick has passed over a tracked execution that is idle past the alert and
\* auto-terminate thresholds, because its terminal's name is now excluded
C14_Excluded ==
    \E e \in Execs :
        /\ ticked /\ Tracked(e) /\ NameExcluded(startedOn[e])
        /\ Idle(data[e], now) >= AutoTerminateSecs(config)
        /\ AutoTerminateEnabled(config)
        /\ termLog[e] = <<>> /\ alerts = {}

----------------------------------------------------------------------------
(* Exclude Terminal (SpecExclude, and SpecFilter for the names) *)

\* this step is Exclude Terminal on execution e, from a modal or from the menu
ExcludeStep(e) ==
    \/ \E a \in alerts : a.owner = e /\ ModalResponse(a, "Exclude Terminal", 0)
    \/ /\ menu.open
       /\ FindByTerminal(activeExecutions, data, menu.terminal) = e
       /\ MenuSelect("Exclude Current Terminal", 0)

\* C15: after Exclude Terminal on an execution, whatever excludePatterns and
\* enableExclusions were, its record is out of the registry and the exclusion
\* filter is true for the name of its terminal.
C15_ExcludedAfterAction ==
    [][\A e \in Execs :
          (HasData(e) /\ ExcludeStep(e)) =>
             /\ ~InRegistry(activeExecutions', e)
             /\ IsTerminalExcluded(config', TerminalName(data[e].terminal))]_vars

\* C15 when the name was not listed yet or the exclusions were on already
C15_ExcludedAfterActionWhenAdded ==
    [][\A e \in Execs :
          ( /\ HasData(e) /\ ExcludeStep(e)
            /\ \/ config.enableExclusions
               \/ ~Includes(FilterNonEmpty(MapTrim(Split(config.excludePatterns, ","))),
                            TerminalName(data[e].terminal)) ) =>
             /\ ~InRegistry(activeExecutions', e)
             /\ IsTerminalExcluded(config', TerminalName(data[e].terminal))]_vars

\* the list handleExcludeAction writes for a name it does not find in the list
WithNameAdded(patterns, name) ==
    Join(Append(FilterNonEmpty(MapTrim(Split(patterns, ","))), name), <<",", " ">>)

\* C15 on the names: a name added to the list is a name the filter excludes
C15_AddedNameIsExcluded ==
    fResult # "unset" => ExcludedBy(TRUE, WithNameAdded(fPatterns, fName), fName)

----------------------------------------------------------------------------
(* The cooldown (Spec) *)

\* C16: every dismissal of an alert stamps lastNotificationCloseTime with the time
\* d of the dismissal, and a tick at a time within 2000 ms of d raises no idle and
\* no total alert for any execution.
C16_CooldownGatesBothPaths ==
    /\ [][alerts \ alerts' # {} => lastNotificationCloseTime' = now]_vars
    /\ [][Tick => (now - lastNotificationCloseTime <= 2000 => alerts' \ alerts = {})]_vars

\* a tick inside the cooldown has raised nothing, with one execution due for its
\* idle alert and one due for its total alert
C16_Witness ==
    /\ ticked
    /\ alerts = {} /\ ~isNotificationShowing
    /\ lastNotificationCloseTime >= ClockStart
    /\ now - lastNotificationCloseTime <= 2000
    /\ \E e \in Execs :
          /\ Tracked(e) /\ ~data[e].idleNotified
          /\ IsPastIdle(Idle(data[e], now), config)
    /\ \E e \in Execs :
          /\ Tracked(e) /\ ~data[e].totalNotified
          /\ Elapsed(data[e], now) >= TotalTimeoutSecs(config)

----------------------------------------------------------------------------
(* The idle alert's tiers (SpecIdle) *)

ObnoxiousFirst == ObnoxiousTimeSet(config) /\ config.obnoxiousModeTime[1] < config.idleTimeout

\* C17: with obnoxiousModeTime set below idleTimeout, every idle alert is obnoxious;
\* an ungated tick raises it for an evaluated execution as soon as its idle time is
\* at least obnoxiousModeTime, and once it is raised no further idle alert follows
\* while its latch stays set, idleTimeout reached or not.
C17_ObnoxiousBeforeIdle ==
    [][ObnoxiousFirst =>
         \A e \in Execs :
            /\ \A a \in NewIdleAlerts(e) : a.obnoxious
            /\ data[e].idleNotified => NewIdleAlerts(e) = {}
            /\ ( /\ Tick /\ Tracked(e)
                 /\ ~Skipped(State, e, now, activeTerminal)
                 /\ IdleGateOpen(State, now)
                 /\ ~data[e].idleNotified
                 /\ Idle(data[e], now) >= config.obnoxiousModeTime[1] )
               => \E a \in NewIdleAlerts(e) : a.obnoxious]_vars

\* the obnoxious idle alert is on screen, raised by the tick at an idle time that
\* has reached obnoxiousModeTime and not idleTimeout
C17_Witness ==
    \E e \in Execs :
        /\ ticked /\ ObnoxiousFirst /\ Tracked(e)
        /\ \E a \in alerts : a.owner = e /\ a.kind = "idle" /\ a.obnoxious
        /\ data[e].idleNotified /\ data[e].obnoxiousNotified
        /\ Idle(data[e], now) >= config.obnoxiousModeTime[1]
        /\ Idle(data[e], now) < config.idleTimeout

\* C18: with obnoxiousMode off and no obnoxiousModeTime, an ungated tick raises a
\* quiet idle alert for an evaluated execution whose idleAlerted is clear (never
\* set, or cleared by activity) as soon as its idle time, measured from the last
\* activity, is at least idleTimeout, also when it has raised one before.
C18_QuietAlertAgainAfterActivity ==
    [][(Tick /\ ~config.obnoxiousMode /\ ~ObnoxiousTimeSet(config)) =>
         \A e \in Execs :
            ( /\ Tracked(e)
              /\ ~Skipped(State, e, now, activeTerminal)
              /\ IdleGateOpen(State, now)
              /\ ~data[e].idleNotified
              /\ ~data[e].forceNextObnoxious
              /\ now - data[e].lastActivity >= config.idleTimeout * 1000 )
            => \E a \in NewIdleAlerts(e) : ~a.obnoxious]_vars

\* the second quiet alert: an alert was closed by the activity of the execution,
\* and a quiet idle alert is on screen again, raised by the tick
C18_Witness ==
    \E e \in Execs :
        /\ ticked /\ ~config.obnoxiousMode /\ ~ObnoxiousTimeSet(config) /\ Tracked(e)
        /\ data[e].lastActivity > data[e].startTime
        /\ lastNotificationCloseTime = data[e].lastActivity
        /\ ~data[e].forceNextObnoxious /\ data[e].snoozeUntil = 0
        /\ \E a \in alerts : a.owner = e /\ a.kind = "idle" /\ ~a.obnoxious
        /\ data[e].idleNotified

----------------------------------------------------------------------------
(* Two executions and the ticks that skip (SpecSkip): monitoring switched  *)
(* off and on under running executions, and onlyMonitorActive with the     *)
(* focus moving between the two terminals and away, auto-terminate on.     *)

SkipAdvances == 1

SkipBase == [BaseConfig EXCEPT !.idleTimeout = 1, !.autoTerminateGlobal = "on"]

SkipConfigs ==
    {SkipBase}
    \cup {[SkipBase EXCEPT !.obnoxiousMode = ob, !.onlyMonitorActive = TRUE] :
            ob \in BOOLEAN}

SkipScope ==
    [starts |-> {<<"e1", "t1">>, <<"e2", "t2">>}, focus |-> Terminals \cup {None},
     steps |-> {1000, 60000}, maxAdvances |-> SkipAdvances, startBy |-> 0,
     snooze |-> {}, buttons |-> {"none"}, items |-> {"none"},
     updates |-> {<<"enabled", FALSE>>, <<"enabled", TRUE>>}]

InitSkip == InitWith(SkipConfigs)

NextSkip ==
    \/ NextOf(SkipScope)
    \/ UpdatesOf(SkipScope)

SpecSkip == InitSkip /\ [][NextSkip]_vars

\* C19: while enabled is false a tick raises no alert, invokes the termination
\* protocol on no terminal and changes no field of any record.
C19_DisabledTickDoesNothing ==
    [][(Tick /\ ~config.enabled) =>
          /\ data' = data
          /\ alerts' = alerts
          /\ isNotificationShowing' = isNotificationShowing
          /\ termLog' = termLog
          /\ disposed' = disposed
          /\ activeExecutions' = activeExecutions]_vars

\* a tick with monitoring off has left alone an execution that is due for its idle
\* alert and for auto-terminate, with the gate open
C19_Witness ==
    \E e \in Execs :
        /\ ticked /\ ~config.enabled
        /\ Tracked(e) /\ ~Skipped(State, e, now, activeTerminal)
        /\ AutoTerminateEnabled(config)
        /\ Idle(data[e], now) >= AutoTerminateSecs(config)
        /\ ~data[e].idleNotified
        /\ IdleGateOpen(State, now)
        /\ alerts = {} /\ termLog[e] = <<>>

\* C20: while onlyMonitorActive is on, a tick leaves every execution whose terminal
\* is not the focused one alone: no alert for it, no latch set, no auto-terminate.
C20_UnfocusedIsSkipped ==
    [][(Tick /\ config.onlyMonitorActive) =>
         \A e \in Execs :
            (Tracked(e) /\ data[e].terminal # activeTerminal) => PassedOver(e)]_vars

\* a tick has auto-terminated the execution in the focused terminal and passed over
\* the one in the other terminal, which is as idle and has no latch set
C20_Witness ==
    \E e, f \in Execs :
        /\ ticked /\ config.enabled /\ config.onlyMonitorActive
        /\ Tracked(e) /\ data[e].terminal # activeTerminal
        /\ Idle(data[e], now) >= AutoTerminateSecs(config)
        /\ ~data[e].idleNotified /\ ~data[e].totalNotified
        /\ termLog[e] = <<>>
        /\ \A a \in alerts : a.owner # e
        /\ Tracked(f) /\ data[f].terminal = activeTerminal
        /\ termLog[f] # <<>>

----------------------------------------------------------------------------
(* Two executions and a tick that faults (SpecFault): auto-terminate on;   *)
(* the host call that terminateExecution makes on a terminal that is       *)
(* already destroyed either returns or throws.  The tick has no try/catch: *)
(* the exception leaves the for loop and the callback.                     *)

FaultAdvances == 2

FaultConfigs ==
    {[BaseConfig EXCEPT !.idleTimeout = 1, !.autoTerminateGlobal = "on",
                        !.useSigInt = sig] : sig \in BOOLEAN}

FaultScope ==
    [starts |-> {<<"e1", "t1">>, <<"e2", "t2">>}, focus |-> {},
     steps |-> {1000, 60000}, maxAdvances |-> FaultAdvances, startBy |-> 0,
     snooze |-> {}, buttons |-> {"none"}, items |-> {"none"}]

RECURSIVE LoopStateAt(_, _, _, _, _)
\* the state in which the for loop reaches the record of f
LoopStateAt(st, snapshot, nowv, activeT, f) ==
    IF snapshot = <<>> \/ Head(snapshot) = f THEN st
    ELSE LoopStateAt(TickExec(st, Head(snapshot), nowv, activeT),
                     Tail(snapshot), nowv, activeT, f)

\* the iteration for e up to the exception: the idle alert if one is due, line 55
\* if useSigInt is on, and the call on the terminal, which throws
TickExecThrowing(st, e, nowv, activeT) ==
    LET st0 == ShowStatus(st, e, activeT)
        d == st0.data[e]
        decision == IF IdleGateOpen(st0, nowv)
                    THEN IdleDecision(d, Idle(d, nowv), st0.config) ELSE "none"
        st1 == IF decision = "none" THEN st0
               ELSE RaiseIdle(st0, e, decision = "obnoxious")
    IN  [st1 EXCEPT
           !.data[e].terminationAttempts = IF st.config.useSigInt THEN @ + 1 ELSE @,
           !.termLog[e] = Append(@, Call("fault", "tick"))]

\* the tick in which terminateExecution throws for the record of f: the loop stops
\* there, and the records after f in the snapshot are not reached
TickFaulting(f) ==
    /\ config.enabled
    /\ Tracked(f)
    /\ LET at == LoopStateAt(State, activeExecutions, now, activeTerminal, f)
           after == TickExecThrowing(at, f, now, activeTerminal)
       IN  /\ ~Skipped(at, f, now, activeTerminal)
           /\ AutoTerminateDue(at, Idle(at.data[f], now), now)
           /\ at.disposed[at.data[f].terminal]
           /\ WithinLog(after)
           /\ Commit(after, menu)
    /\ ticked' = TRUE
    /\ UNCHANGED <<settingsPanel, now, advances, phase, startedOn, activeTerminal, filterVars, resetVars>>

InitFault == InitWith(FaultConfigs)

\* the events of the scope, without the modals (the alerts are quiet) and the menu
NextFault ==
    \/ \E d \in FaultScope.steps : advances < FaultScope.maxAdvances /\ Advance(d)
    \/ Tick
    \/ \E p \in FaultScope.starts :
          advances <= FaultScope.startBy /\ StartExecution(p[1], p[2])
    \/ \E e \in Execs : Activity(e)
    \/ \E e \in Execs : EndExecution(e)
    \/ \E a \in AlertRecords : CancelQuiet(a)
    \/ \E f \in Execs : TickFaulting(f)

SpecFault == InitFault /\ [][NextFault]_vars

\* this step is a run of the setInterval callback, to its end or to an exception
TickRun == Tick \/ \E f \in Execs : TickFaulting(f)

\* C21: in every tick, also one in which the processing of an execution faults,
\* each tracked execution that is not skipped and is due for auto-terminate has the
\* termination protocol invoked on it; a fault stops neither the rest of the loop
\* nor the ticks after it.
C21_FaultIsIsolated ==
    [][(TickRun /\ config.enabled /\ AutoTerminateEnabled(config)) =>
         \A e \in Execs :
            ( /\ Tracked(e)
              /\ ~Skipped(State, e, now, activeTerminal)
              /\ Idle(data[e], now) >= AutoTerminateSecs(config) )
            => Len(termLog'[e]) = Len(termLog[e]) + 1]_vars

\* C21 for the ticks in which nothing throws
C21_EveryRecordEvaluated ==
    [][(Tick /\ config.enabled /\ AutoTerminateEnabled(config)) =>
         \A e \in Execs :
            ( /\ Tracked(e)
              /\ ~Skipped(State, e, now, activeTerminal)
              /\ Idle(data[e], now) >= AutoTerminateSecs(config) )
            => Len(termLog'[e]) = Len(termLog[e]) + 1]_vars

\* a tick has faulted on the first execution and left the second, which is as idle
\* and whose terminal is open, without its auto-terminate
C21_SecondNotReached ==
    \E e, f \in Execs :
        /\ ticked /\ e # f /\ Tracked(e) /\ Tracked(f)
        /\ termLog[e] # <<>> /\ LastCall(e).what = "fault"
        /\ ~disposed[data[f].terminal]
        /\ Idle(data[f], now) >= AutoTerminateSecs(config)
        /\ termLog[f] = <<>>

----------------------------------------------------------------------------
(* Reset All to Defaults on its own (SpecReset): the options that have a   *)
(* value in the Global and in the Workspace scope, up to the bound in each *)
(* scope, with and without a workspace folder, and one run of the handler. *)

MaxOverrides == 2

\* const keys = [...]
ResetKeys ==
    <<"enabled", "idleTimeout", "totalTimeout", "statusBarAlignment",
      "statusBarAlwaysVisible", "displayIdleText", "obnoxiousMode", "obnoxiousColor",
      "obnoxiousModeTime", "obnoxiousSnooze", "obnoxiousPerWindow", "enableExclusions",
      "excludePatterns", "onlyMonitorActive", "useSigInt", "autoTerminateEnabled",
      "autoTerminateTimeout", "hardTerminateRetries">>

ResetKeySet == {ResetKeys[i] : i \in 1..Len(ResetKeys)}

\* const workspaceOverridableKeys = ['autoTerminateEnabled']
WorkspaceOverridableKeys == {"autoTerminateEnabled"}

RECURSIVE ResetLoop(_, _, _, _)
\* for (const key of keys): cfg.update(key, undefined, target) where inspect finds a value
ResetLoop(keys, g, w, hasWorkspace) ==
    IF keys = <<>> THEN [global |-> g, workspace |-> w]
    ELSE LET key == Head(keys)
             g1 == IF key \in g THEN g \ {key} ELSE g
             w1 == IF hasWorkspace /\ key \in WorkspaceOverridableKeys /\ key \in w
                   THEN w \ {key} ELSE w
         IN  ResetLoop(Tail(keys), g1, w1, hasWorkspace)

RECURSIVE SetsUpTo(_, _)
\* the subsets of S with at most n elements
SetsUpTo(S, n) ==
    IF n = 0 THEN {{}}
    ELSE LET smaller == SetsUpTo(S, n - 1)
         IN  smaller \cup {T \cup {a} : T \in smaller, a \in S}

InitReset ==
    /\ CoreInit({BaseConfig})
    /\ fEnabled = FALSE
    /\ fPatterns = <<>>
    /\ fName = <<>>
    /\ fResult = "unset"
    /\ rHasWorkspace \in BOOLEAN
    /\ rGlobal \in SetsUpTo(ResetKeySet, MaxOverrides)
    /\ rWorkspace \in IF rHasWorkspace THEN SetsUpTo(ResetKeySet, MaxOverrides) ELSE {{}}
    /\ rDone = FALSE

\* the settings panel's 'reset' message
ResetAll ==
    /\ ~rDone
    /\ LET after == ResetLoop(ResetKeys, rGlobal, rWorkspace, rHasWorkspace)
       IN  /\ rGlobal' = after.global
           /\ rWorkspace' = after.workspace
    /\ rDone' = TRUE
    /\ statusBar' = CreateStatusBar(config)
    /\ NotATick
    /\ UNCHANGED <<settingsPanel, now, advances, config, phase, startedOn, activeExecutions, data,
                   alerts, isNotificationShowing, lastNotificationCloseTime,
                   flashing, activeTerminal, disposed, termLog, menu, escalated,
                   filterVars, rHasWorkspace>>

SpecReset == InitReset /\ [][ResetAll]_vars

\* C22: after Reset All to Defaults none of the listed options has a value left in
\* the Global scope or in the Workspace scope.
C22_ResetClearsBothScopes ==
    rDone => /\ rGlobal \cap ResetKeySet = {}
             /\ rWorkspace \cap ResetKeySet = {}

\* C22 for what the handler clears: every Global value, and the Workspace value of
\* autoTerminateEnabled; the other Workspace values are as they were
C22_ResetClearsGlobalScope ==
    /\ rDone => /\ rGlobal \cap ResetKeySet = {}
                /\ rWorkspace \cap WorkspaceOverridableKeys = {}
    /\ [][ResetAll => rWorkspace' = rWorkspace \ WorkspaceOverridableKeys]_vars

\* Reset All has run and an option keeps its Workspace value
C22_WorkspaceValueLeft ==
    /\ rDone /\ rHasWorkspace
    /\ "idleTimeout" \in rWorkspace

----------------------------------------------------------------------------
(* One execution and the status bar (SpecStatus): auto-terminate set and   *)
(* unset in the Global and in the Workspace scope and toggled from the     *)
(* menu, statusBarAlwaysVisible on and off, the focus on the terminal of   *)
(* the execution and away from it.                                         *)

StatusAdvances == 2

StatusConfigs ==
    {[BaseConfig EXCEPT !.idleTimeout = 1, !.obnoxiousMode = ob,
                        !.autoTerminateGlobal = g, !.autoTerminateWorkspace = w,
                        !.statusBarAlwaysVisible = av] :
        ob \in BOOLEAN, g \in {"unset", "on"}, w \in {"unset", "on", "off"},
        av \in BOOLEAN}

StatusScope ==
    [starts |-> {<<"e1", "t1">>}, focus |-> {"t1", None},
     steps |-> {1000}, maxAdvances |-> StatusAdvances, startBy |-> 0,
     snooze |-> {}, buttons |-> {"none"},
     items |-> {"Toggle Global", "Toggle Workspace", "none"}]

InitStatus == InitWith(StatusConfigs)

NextStatus == NextOf(StatusScope)

SpecStatus == InitStatus /\ [][NextStatus]_vars

\* the icon of the destructive mode in force: Global, or Workspace only
DestructiveIcon(cfg) ==
    IF cfg.autoTerminateGlobal = "on" THEN "$(warning)" ELSE "$(chat-sparkle-warning)"

\* C23: in every state, after a tick as after a (re)creation of the item, a visible
\* status bar item shows $(warning) while auto-terminate is in force and on in the
\* Global scope, and $(chat-sparkle-warning) while it is in force through the
\* Workspace scope only.
C23_IconTellsTheScope ==
    (statusBar.visible /\ AutoTerminateEnabled(config))
        => statusBar.icon = DestructiveIcon(config)

\* C23 right after the item is created or created again, and after the ticks with
\* auto-terminate in force through the Workspace scope only
C23_IconWhenCreatedOrWorkspace ==
    /\ [][(statusBar' # statusBar /\ ~Tick /\ statusBar'.visible
              /\ AutoTerminateEnabled(config'))
            => statusBar'.icon = DestructiveIcon(config')]_vars
    /\ [][(Tick /\ statusBar'.visible /\ AutoTerminateEnabled(config)
              /\ config.autoTerminateGlobal # "on")
            => statusBar'.icon = "$(chat-sparkle-warning)"]_vars

\* a tick has written the status text of the focused execution with auto-terminate
\* on in the Global scope
C23_TickWroteGlobal ==
    \E e \in Execs :
        /\ ticked /\ Tracked(e) /\ data[e].terminal = activeTerminal
        /\ config.enabled /\ AutoTerminateEnabled(config)
        /\ config.autoTerminateGlobal = "on"
        /\ statusBar.visible

----------------------------------------------------------------------------
(* The latches and the presentation (Spec) *)

\* this step presents an alert of the given kind for e, and the showing flag goes
\* from false to true in it
Presented(e, kind) ==
    /\ ~isNotificationShowing
    /\ isNotificationShowing'
    /\ \E a \in alerts' \ alerts : a.owner = e /\ a.kind = kind

----------------------------------------------------------------------------
(* Two executions for ever (SpecLive): both start together, the first has *)
(* output from time to time and the second is silent.  The code reads its  *)
(* time stamps only as differences from Date.now(), so here the clock is   *)
(* held at its origin and the passing of time moves every stored time      *)
(* stamp back; a time stamp older than the horizon, which is past every    *)
(* threshold, is kept at the horizon.  Time passes one tick period at a    *)
(* time, after the tick of the period has run; the tick keeps running      *)
(* (setInterval), time keeps passing and every quiet alert on screen is    *)
(* dismissed in the end.                                                   *)

LiveHorizon == 60000

\* setInterval(..., 1000)
TickPeriod == 1000

LiveConfig == [BaseConfig EXCEPT !.idleTimeout = 1]

Aged(t, d) == IF t - d < now - LiveHorizon THEN now - LiveHorizon ELSE t - d

\* one tick period passes
Elapse ==
    /\ ticked
    /\ data' = [e \in Execs |->
                  IF HasData(e)
                  THEN [data[e] EXCEPT !.startTime = Aged(@, TickPeriod),
                                       !.lastActivity = Aged(@, TickPeriod),
                                       !.snoozeUntil = IF @ > now THEN @ - TickPeriod ELSE @]
                  ELSE data[e]]
    /\ lastNotificationCloseTime' =
          IF lastNotificationCloseTime - TickPeriod < 0 THEN 0
          ELSE lastNotificationCloseTime - TickPeriod
    /\ NotATick
    /\ UNCHANGED <<settingsPanel, escalated, statusBar, now, advances, config, phase, startedOn, activeExecutions,
                   alerts, isNotificationShowing, flashing, activeTerminal, disposed,
                   termLog, menu, filterVars, resetVars>>

LiveStarts == {<<"e1", "t1">>, <<"e2", "t2">>}

\* no record is older than this instant
AllStartNow == \A e \in Execs : HasData(e) => data[e].startTime = now

InitLive == InitWith({LiveConfig})

NextLive ==
    \/ Elapse
    \/ Tick
    \/ \E p \in LiveStarts : AllStartNow /\ StartExecution(p[1], p[2])
    \/ Activity("e1")
    \/ \E a \in AlertRecords : CancelQuiet(a)

\* The interval timer is never cleared and its callback can always run, so weak
\* fairness of the tick is: again and again, the step just taken is a tick.
SpecLive ==
    /\ InitLive
    /\ [][NextLive]_vars
    /\ []<>ticked
    /\ SF_vars(Elapse)
    /\ WF_vars(\E a \in AlertRecords : CancelQuiet(a))

\* f is tracked and evaluated, an idle or a total alert is due for it, and the
\* alert of another execution or the cooldown holds it back
Deferred(f) ==
    /\ Tracked(f)
    /\ ~Skipped(State, f, now, activeTerminal)
    /\ \/ ~data[f].idleNotified /\ IsPastIdle(Idle(data[f], now), config)
       \/ ~data[f].totalNotified /\ Elapsed(data[f], now) >= TotalTimeoutSecs(config)
    /\ \A a \in alerts : a.owner # f
    /\ ~IdleGateOpen(State, now)

RaisedFor(f) == \E a \in alerts : a.owner = f

\* f has left the conditions of the wait: it ended, is skipped, or had activity
LeftTheWait(f) ==
    \/ ~Tracked(f)
    \/ Skipped(State, f, now, activeTerminal)
    \/ ~IsPastIdle(Idle(data[f], now), config)

\* C25: an execution with an alert due and held back by another alert or by the
\* cooldown, which stays tracked, evaluated and without activity, has an alert
\* raised in the end.
C25_DeferredAlertIsRaised ==
    \A f \in Execs : Deferred(f) ~> (RaisedFor(f) \/ LeftTheWait(f))

\* C25 for the execution the loop reaches first
C25_FirstInOrderIsRaised ==
    \A f \in Execs :
        (Deferred(f) /\ Head(activeExecutions) = f) ~> (RaisedFor(f) \/ LeftTheWait(f))

\* the second execution is held back by the alert of the first
C25_Held ==
    \E e, f \in Execs :
        /\ ticked /\ activeExecutions = <<e, f>>
        /\ RaisedFor(e) /\ Deferred(f)

----------------------------------------------------------------------------
\* C26: whenever an alert leaves the screen (a modal's button or close, the
\* cancel of a quiet notification, activity, Reset Timer or Snooze from the menu),
\* the same step clears the showing flag, sets the time of the last close to the
\* current time, and stops the flashing that an obnoxious alert started.
C26_DismissalEffects ==
    [][\A a \in alerts :
          a \notin alerts' =>
             /\ ~isNotificationShowing'
             /\ lastNotificationCloseTime' = now
             /\ a.obnoxious => ~flashing']_vars

\* an obnoxious idle alert was closed at this instant without a button
C26_Witness ==
    /\ alerts = {}
    /\ ~isNotificationShowing
    /\ ~flashing
    /\ lastNotificationCloseTime = now
    /\ \E e \in Execs :
          Tracked(e) /\ data[e].idleNotified /\ data[e].obnoxiousNotified

----------------------------------------------------------------------------
\* the record's dismissal reference is that of a quiet alert on the screen
ReferenceIsLive(e) ==
    data[e].dismissNotification # None =>
        \E a \in alerts : a.owner = e /\ ~a.obnoxious /\ a.kind = data[e].dismissNotification

\* the showing flag is cleared or the time of the last close is written
DismissalApplied ==
    \/ lastNotificationCloseTime' # lastNotificationCloseTime
    \/ isNotificationShowing /\ ~isNotificationShowing'

\* C27: the effects of a dismissal (the showing flag cleared, the time of the
\* last close recorded) are applied once for an alert, in the step that takes it
\* off the screen, whichever of cancel, activity, Reset Timer and Snooze come and
\* in whatever order; the dismissal of a quiet alert clears the reference held by
\* its record, and a reference held by a record is never that of an alert that
\* has gone, so a late trigger cannot dismiss a later alert.
C27_DismissedOnce ==
    /\ [](\A e \in Execs : HasData(e) => ReferenceIsLive(e))
    /\ [][/\ DismissalApplied =>
                Cardinality({a \in alerts : a \notin alerts'}) = 1
          /\ \A a \in alerts :
                (a \notin alerts' /\ ~a.obnoxious /\ HasData(a.owner)' ) =>
                    data'[a.owner].dismissNotification = None]_vars

\* the quiet total alert of e is gone, and a later trigger on e (activity or
\* Reset Timer, at this instant) has left the time of the last close alone
C27_Witness ==
    /\ ~config.obnoxiousMode
    /\ alerts = {}
    /\ ~isNotificationShowing
    /\ \E e \in Execs :
          /\ Tracked(e)
          /\ data[e].totalNotified
          /\ ~data[e].forceNextObnoxious
          /\ data[e].dismissNotification = None
          /\ data[e].lastActivity = now
          /\ data[e].startTime <= lastNotificationCloseTime
    /\ lastNotificationCloseTime < now

----------------------------------------------------------------------------
(* The menu over a quiet alert (SpecMenu): one execution in the focused    *)
(* terminal, quiet alerts, and every action of the menu on the execution.  *)

MenuAdvances == 2

MenuConfigs ==
    {[BaseConfig EXCEPT !.idleTimeout = 1, !.useSigInt = sig] : sig \in BOOLEAN}

MenuScope ==
    [starts |-> {<<"e1", "t1">>}, focus |-> {},
     steps |-> {1000, 60000}, maxAdvances |-> MenuAdvances, startBy |-> 0,
     snooze |-> SnoozeMinutes, buttons |-> {},
     items |-> {"Reset Timer", "Snooze", "Terminate", "Exclude Current Terminal", "none"}]

InitMenu == InitWith(MenuConfigs)

\* the events of the scope, without the modals (the alerts are quiet)
NextMenu ==
    \/ \E d \in MenuScope.steps : advances < MenuScope.maxAdvances /\ Advance(d)
    \/ Tick
    \/ \E p \in MenuScope.starts :
          advances <= MenuScope.startBy /\ StartExecution(p[1], p[2])
    \/ \E e \in Execs : Activity(e)
    \/ \E e \in Execs : EndExecution(e)
    \/ \E a \in AlertRecords : CancelQuiet(a)
    \/ MenuOpen
    \/ \E sel \in MenuScope.items, mins \in MenuScope.snooze \cup {0} : MenuSelect(sel, mins)

SpecMenu == InitMenu /\ [][NextMenu]_vars

\* the menu is open on the tracked execution of the focused terminal, and a quiet
\* alert of that execution is on the screen
MenuOverQuietAlert(e) ==
    /\ menu.open /\ menu.exec = e /\ menu.terminal = activeTerminal
    /\ Tracked(e) /\ data[e].terminal = activeTerminal
    /\ \E a \in alerts : a.owner = e /\ ~a.obnoxious

\* C28: with a quiet alert of the focused terminal's execution on the screen,
\* each of Reset Timer, Snooze, Terminate and Exclude Current Terminal from the
\* menu takes the alert off the screen and clears the showing flag.
C28_MenuActionDismisses ==
    [][\A e \in Execs, mins \in SnoozeMinutes \cup {0},
          sel \in {"Reset Timer", "Snooze", "Terminate", "Exclude Current Terminal"} :
          (MenuOverQuietAlert(e) /\ MenuSelect(sel, mins)) =>
              /\ ~isNotificationShowing'
              /\ \A a \in alerts' : a.owner # e]_vars

\* C28 for the two actions whose branch calls dismissNotification
C28_ResetAndSnoozeDismiss ==
    [][\A e \in Execs, mins \in SnoozeMinutes \cup {0}, sel \in {"Reset Timer", "Snooze"} :
          (MenuOverQuietAlert(e) /\ MenuSelect(sel, mins)) =>
              /\ ~isNotificationShowing'
              /\ \A a \in alerts' : a.owner # e]_vars

\* Terminate from the menu has just run on an execution, and the quiet alert of
\* the execution is still on the screen
C28_AlertLeftShowing ==
    \E e \in Execs :
        /\ ~menu.open /\ ~ticked
        /\ termLog[e] # <<>> /\ LastCall(e).by = "menu"
        /\ isNotificationShowing
        /\ \E a \in alerts : a.owner = e /\ ~a.obnoxious

----------------------------------------------------------------------------
\* C29: activity on an execution takes a quiet alert off the screen exactly when
\* the alert is that execution's: its own quiet alert goes and the record's
\* dismissal reference is cleared, the quiet alert of another execution and every
\* modal stay.
C29_ActivityDismissesOwnAlert ==
    [][\A e \in Execs :
          Activity(e) =>
             /\ \A a \in alerts : a \notin alerts' <=> (a.owner = e /\ ~a.obnoxious)
             /\ data'[e].dismissNotification = None
             /\ (\A a \in alerts : a.owner # e \/ a.obnoxious) =>
                   /\ isNotificationShowing' = isNotificationShowing
                   /\ lastNotificationCloseTime' = lastNotificationCloseTime]_vars

\* e has had output at this instant, and the quiet alert of another execution is
\* still on the screen
C29_Witness ==
    \E e, f \in Execs :
        /\ e # f /\ ~ticked
        /\ phase[e] = "running" /\ Tracked(e)
        /\ data[e].lastActivity = now /\ data[e].startTime < now
        /\ isNotificationShowing
        /\ \E a \in alerts : a.owner = f /\ ~a.obnoxious
        /\ data[f].dismissNotification # None

----------------------------------------------------------------------------
(* Reset Timer on a record that has been through a snooze and a Ctrl+C     *)
(* (SpecTimer): one execution, obnoxiousSnooze and useSigInt on, alerts of *)
(* both tiers, and Reset Timer, Snooze and Terminate from the modal and    *)
(* from the menu.                                                          *)

TimerAdvances == 3

\* quiet alerts; a snooze makes the next alert a modal
TimerConfigs ==
    {[BaseConfig EXCEPT !.idleTimeout = 1, !.obnoxiousSnooze = TRUE, !.useSigInt = TRUE]}

TimerScope ==
    [starts |-> {<<"e1", "t1">>}, focus |-> {},
     steps |-> {60000, 300000}, maxAdvances |-> TimerAdvances, startBy |-> 0,
     snooze |-> {5}, buttons |-> {"Reset Timer", "Snooze", "Terminate", "none"},
     items |-> {"Reset Timer", "Snooze", "Terminate", "none"}]

InitTimer == InitWith(TimerConfigs)

NextTimer == EventsOf(TimerScope)

SpecTimer == InitTimer /\ [][NextTimer]_vars

\* this step is Reset Timer on execution e, from its idle modal or from the menu
ResetStep(e) ==
    \/ \E a \in alerts : a.owner = e /\ ModalResponse(a, "Reset Timer", 0)
    \/ menu.open /\ menu.exec = e /\ MenuSelect("Reset Timer", 0)

\* C30: Reset Timer, pressed on the modal of an idle alert or picked in the menu,
\* leaves the record as activity at the same instant would: lastActivity = now,
\* idleNotified and obnoxiousNotified false, and totalNotified,
\* forceNextObnoxious, snoozeUntil and terminationAttempts as they were.
C30_ResetTimerIsActivity ==
    [][\A e \in Execs :
          (HasData(e) /\ ResetStep(e) /\ HasData(e)') =>
             /\ data'[e] = OnActivity(State, e, now).data[e]
             /\ data'[e].lastActivity = now
             /\ ~data'[e].idleNotified
             /\ ~data'[e].obnoxiousNotified
             /\ data'[e].totalNotified = data[e].totalNotified
             /\ data'[e].forceNextObnoxious = data[e].forceNextObnoxious
             /\ data'[e].snoozeUntil = data[e].snoozeUntil
             /\ data'[e].terminationAttempts = data[e].terminationAttempts]_vars

\* the timer of a record that has its total latch, a snooze deadline and a Ctrl+C
\* behind it has been reset at this instant
C30_Witness ==
    \E e \in Execs :
        /\ Tracked(e) /\ ~ticked /\ ~menu.open
        /\ data[e].lastActivity = now /\ data[e].startTime < now
        /\ ~data[e].idleNotified /\ ~data[e].obnoxiousNotified
        /\ data[e].totalNotified
        /\ data[e].snoozeUntil > 0
        /\ data[e].terminationAttempts > 0

----------------------------------------------------------------------------
\* C31: a Snooze taken with obnoxiousSnooze on leaves forceNextObnoxious true, and
\* the first idle alert raised for the execution after it is obnoxious, whatever
\* total alert or activity came in between.
C31_NextIdleAlertIsObnoxious ==
    [][\A e \in Execs :
          /\ \A mins \in SnoozeMinutes :
                (HasData(e) /\ config.obnoxiousSnooze /\ SnoozeStep(e, mins) /\ HasData(e)')
                    => data'[e].forceNextObnoxious
          /\ \A a \in alerts' \ alerts :
                (a.owner = e /\ a.kind = "idle" /\ escalated[e]) => a.obnoxious]_vars

\* C31 for the idle alerts raised while the flag is still set
C31_ForcedIdleAlertIsObnoxious ==
    [][\A e \in Execs :
          \A a \in alerts' \ alerts :
              (a.owner = e /\ a.kind = "idle" /\ HasData(e) /\ data[e].forceNextObnoxious)
                  => a.obnoxious]_vars

\* C31 as the code has it: a Snooze taken with obnoxiousSnooze on leaves
\* forceNextObnoxious true; the flag stays until an alert is raised for the
\* execution, and that alert, idle or total, is obnoxious and clears the flag.
C31_NextAlertIsObnoxious ==
    [][\A e \in Execs :
          /\ \A mins \in SnoozeMinutes :
                (HasData(e) /\ config.obnoxiousSnooze /\ SnoozeStep(e, mins) /\ HasData(e)')
                    => data'[e].forceNextObnoxious
          /\ (HasData(e) /\ data[e].forceNextObnoxious /\ HasData(e)') =>
                /\ \A a \in alerts' \ alerts :
                      a.owner = e => (a.obnoxious /\ ~data'[e].forceNextObnoxious)
                /\ ~data'[e].forceNextObnoxious =>
                      \E a \in alerts' \ alerts : a.owner = e /\ a.obnoxious]_vars

\* an idle alert made obnoxious by the flag alone is on the screen
C31_Witness ==
    \E a \in alerts :
        /\ a.kind = "idle" /\ a.obnoxious
        /\ ~config.obnoxiousMode /\ ~ObnoxiousTimeSet(config)
        /\ config.obnoxiousSnooze
        /\ data[a.owner].snoozeUntil > 0

\* no idle alert has been raised since the Snooze, and the flag is gone
C31_EscalationLost ==
    \E e \in Execs :
        /\ Tracked(e) /\ phase[e] = "running"
        /\ escalated[e]
        /\ ~data[e].forceNextObnoxious
        /\ alerts = {}

----------------------------------------------------------------------------
\* the priority rule: the first of the six steps that applies
SixStepRule(d, idle, cfg) ==
    IF d.obnoxiousNotified THEN "none"
    ELSE IF ObnoxiousTimeSet(cfg) /\ idle >= cfg.obnoxiousModeTime[1] THEN "obnoxious"
    ELSE IF d.forceNextObnoxious /\ idle >= IdleTimeoutSecs(cfg) THEN "obnoxious"
    ELSE IF cfg.obnoxiousMode /\ idle >= IdleTimeoutSecs(cfg) /\ ~d.idleNotified
         THEN "obnoxious"
    ELSE IF ~d.idleNotified /\ idle >= IdleTimeoutSecs(cfg) THEN "quiet"
    ELSE "none"

\* C32: in every reachable state the idle decision of an ungated tick for a
\* tracked execution is the one the six-step priority rule gives.
C32_DecisionIsSixStepRule ==
    \A e \in Execs :
        Tracked(e) =>
            IdleDecision(data[e], Idle(data[e], now), config)
                = SixStepRule(data[e], Idle(data[e], now), config)

\* the gate is open and the third step decides: the flag alone makes the idle
\* alert of an execution past its idle timeout obnoxious
C32_Witness ==
    \E e \in Execs :
        /\ Tracked(e) /\ ~Skipped(State, e, now, activeTerminal)
        /\ IdleGateOpen(State, now)
        /\ ~data[e].obnoxiousNotified
        /\ ~IsPastObnoxious(Idle(data[e], now), config)
        /\ data[e].forceNextObnoxious
        /\ ~config.obnoxiousMode
        /\ IdleDecision(data[e], Idle(data[e], now), config) = "obnoxious"

----------------------------------------------------------------------------
\* this step sets idleNotified of e to true
IdleLatchSet(e) ==
    /\ HasData(e) /\ HasData(e)'
    /\ data'[e].idleNotified
    /\ ~data[e].idleNotified \/ NewIdleAlerts(e) # {}

\* C33: whenever idleNotified is set to true, the idle time of the execution is at
\* least idleTimeout, whatever obnoxiousMode and obnoxiousModeTime are.
C33_LatchedPastIdleTimeout ==
    [][\A e \in Execs :
          IdleLatchSet(e) => IsPastIdle(Idle(data[e], now), config)]_vars

\* C33 as the code has it: whenever idleNotified is set to true, the idle time is
\* at least idleTimeout, or obnoxiousModeTime is set and the idle time is at
\* least obnoxiousModeTime.
C33_LatchedPastAThreshold ==
    [][\A e \in Execs :
          IdleLatchSet(e) =>
             \/ IsPastIdle(Idle(data[e], now), config)
             \/ IsPastObnoxious(Idle(data[e], now), config)]_vars

\* the tick has raised an obnoxious idle alert, and latched idleNotified, for an
\* execution past obnoxiousModeTime and short of idleTimeout
C33_Witness ==
    \E a \in alerts :
        /\ ticked /\ a.kind = "idle" /\ a.obnoxious
        /\ data[a.owner].idleNotified
        /\ IsPastObnoxious(Idle(data[a.owner], now), config)
        /\ ~IsPastIdle(Idle(data[a.owner], now), config)

----------------------------------------------------------------------------
NewTotalAlerts(e) == {a \in alerts' \ alerts : a.owner = e /\ a.kind = "total"}

\* C34: a total alert is raised for an execution only with totalNotified false and
\* the run time at least totalTimeout minutes; it is obnoxious exactly when
\* obnoxiousMode or forceNextObnoxious is true; raising it sets totalNotified; and
\* totalNotified is cleared by a Snooze only, so that activity and Reset Timer
\* never let a second total alert through.
C34_TotalAlertOncePerSnooze ==
    [][\A e \in Execs :
          /\ \A a \in NewTotalAlerts(e) :
                /\ HasData(e) /\ ~data[e].totalNotified
                /\ Elapsed(data[e], now) >= config.totalTimeout * 60
                /\ a.obnoxious <=> (config.obnoxiousMode \/ data[e].forceNextObnoxious)
                /\ data'[e].totalNotified
          /\ (HasData(e) /\ data[e].totalNotified /\ HasData(e)' /\ ~data'[e].totalNotified)
                => \E mins \in SnoozeMinutes : SnoozeStep(e, mins)]_vars

\* the tick has raised a total alert that the flag alone makes obnoxious
C34_Witness ==
    \E a \in alerts :
        /\ ticked /\ a.kind = "total" /\ a.obnoxious
        /\ ~config.obnoxiousMode
        /\ data[a.owner].totalNotified
        /\ ~data[a.owner].forceNextObnoxious
        /\ data[a.owner].snoozeUntil > 0

----------------------------------------------------------------------------
(* The idle alert and auto-terminate due on the same tick (SpecBoth): one  *)
(* execution, idleTimeout equal to autoTerminateTimeout (60 s), so that no *)
(* tick before the 60th second has anything to do.                         *)

BothAdvances == 2

BothConfigs ==
    {[BaseConfig EXCEPT !.idleTimeout = 60, !.autoTerminateGlobal = "on",
                        !.obnoxiousMode = ob, !.useSigInt = sig] :
        ob \in BOOLEAN, sig \in BOOLEAN}

BothScope ==
    [starts |-> {<<"e1", "t1">>}, focus |-> {},
     steps |-> {1000, 60000}, maxAdvances |-> BothAdvances, startBy |-> 0,
     snooze |-> {}, buttons |-> {"Reset Timer", "none"}, items |-> {"Reset Timer", "none"}]

InitBoth == InitWith(BothConfigs)

NextBoth == EventsOf(BothScope)

SpecBoth == InitBoth /\ [][NextBoth]_vars

\* the tick evaluates e, and auto-terminate is due for it
AutoTerminateTick(e) ==
    /\ Tick
    /\ Tracked(e)
    /\ ~Skipped(State, e, now, activeTerminal)
    /\ AutoTerminateDue(State, Idle(data[e], now), now)

\* C35: on a tick where auto-terminate is due for an execution the termination
\* protocol is invoked and nothing else is done for the execution: no alert is
\* raised for it and none of its latches is set.
C35_OnlyTheProtocol ==
    [][\A e \in Execs :
          AutoTerminateTick(e) =>
             /\ Len(termLog'[e]) = Len(termLog[e]) + 1
             /\ \A a \in alerts' \ alerts : a.owner # e
             /\ data'[e].idleNotified = data[e].idleNotified
             /\ data'[e].obnoxiousNotified = data[e].obnoxiousNotified
             /\ data'[e].totalNotified = data[e].totalNotified]_vars

\* C35 for the total alert: the protocol is invoked, no total alert is raised and
\* the total latch is left alone
C35_NoTotalAlert ==
    [][\A e \in Execs :
          AutoTerminateTick(e) =>
             /\ Len(termLog'[e]) = Len(termLog[e]) + 1
             /\ \A a \in alerts' \ alerts : ~(a.owner = e /\ a.kind = "total")
             /\ data'[e].totalNotified = data[e].totalNotified]_vars

\* the tick at the 60th second of idle time has raised the idle alert and has
\* invoked the protocol, once
C35_AlertAndProtocol ==
    \E a \in alerts :
        /\ ticked /\ a.kind = "idle"
        /\ Tracked(a.owner)
        /\ Idle(data[a.owner], now) = 60
        /\ data[a.owner].idleNotified
        /\ Len(termLog[a.owner]) = 1
        /\ LastCall(a.owner).by = "tick"

(* ---- C36: auto-terminate against a process that ignores the signal ---- *)

\* every call in the log was made by the tick
OnlyTickCalls(log) == \A i \in 1..Len(log) : log[i].by = "tick"

\* C36: with useSigInt on and hardTerminateRetries = k, each tick on which
\* auto-terminate is due for a running execution invokes the protocol once more,
\* and of these invocations the first k send the signal and the (k+1)-th destroys
\* the terminal.
C36_DestroyedOnTickKPlusOne ==
    [][\A e \in Execs :
          (/\ AutoTerminateTick(e) /\ config.useSigInt
           /\ phase[e] = "running" /\ OnlyTickCalls(termLog[e])) =>
             termLog'[e] =
                Append(termLog[e],
                       Call(IF Len(termLog[e]) + 1 > config.hardTerminateRetries
                            THEN "destroy" ELSE "signal", "tick"))]_vars

\* C36 for the values the code does not replace: k >= 1
C36_DestroyedOnTickKPlusOneForPositiveRetries ==
    [][\A e \in Execs :
          (/\ AutoTerminateTick(e) /\ config.useSigInt
           /\ config.hardTerminateRetries >= 1
           /\ phase[e] = "running" /\ OnlyTickCalls(termLog[e])) =>
             termLog'[e] =
                Append(termLog[e],
                       Call(IF Len(termLog[e]) + 1 > config.hardTerminateRetries
                            THEN "destroy" ELSE "signal", "tick"))]_vars

\* k = 0: the first tick on which auto-terminate is due has sent the signal and
\* the terminal is still there
C36_FirstDueTickOnlySignals ==
    \E e \in Execs :
        /\ config.useSigInt /\ config.hardTerminateRetries = 0
        /\ ticked /\ Tracked(e)
        /\ termLog[e] = <<Call("signal", "tick")>>
        /\ ~disposed[data[e].terminal]

\* k = 2: three ticks in a row have sent signal, signal and the destroy
C36_ThreeTicks ==
    \E e \in Execs :
        /\ config.useSigInt /\ config.hardTerminateRetries = 2
        /\ termLog[e] = <<Call("signal", "tick"), Call("signal", "tick"),
                          Call("destroy", "tick")>>
        /\ disposed["t1"]

(* ---- C37: the flashing under an obnoxious alert ---- *)
(* One execution under obnoxious mode; the settings panel is opened and    *)
(* closed, monitoring is switched off and on, the menu is used.            *)

FlashAdvances == 2

FlashConfigs == {ObnoxiousConfig}

FlashScope ==
    [starts |-> {<<"e1", "t1">>}, focus |-> {},
     steps |-> {1000, 60000}, maxAdvances |-> FlashAdvances, startBy |-> 0,
     snooze |-> {}, buttons |-> {"Reset Timer", "none"},
     items |-> {"Reset Timer", "none"}]

InitFlash == InitWith(FlashConfigs)

NextFlash ==
    \/ \E d \in FlashScope.steps : advances < FlashScope.maxAdvances /\ Advance(d)
    \/ Tick
    \/ \E p \in FlashScope.starts : advances <= FlashScope.startBy /\ StartExecution(p[1], p[2])
    \/ \E e \in Execs : Activity(e)
    \/ \E e \in Execs : EndExecution(e)
    \/ \E a \in AlertRecords, s \in FlashScope.buttons : ModalResponse(a, s, 0)
    \/ MenuOpen
    \/ \E sel \in FlashScope.items : MenuSelect(sel, 0)
    \/ \E v \in BOOLEAN : UpdateSetting("enabled", v)
    \/ OpenSettings
    \/ PanelDisposed

SpecFlash == InitFlash /\ [][NextFlash]_vars

\* C37: while an obnoxious alert is on screen the flashing is on, whatever
\* configuration changes, closes of the settings panel or menu actions happen
\* between the step that raises the alert and the step that dismisses it.
C37_FlashingWhileObnoxious ==
    (\E a \in alerts : a.obnoxious) => flashing

\* C37 for the raising step alone: the step that puts an obnoxious alert on
\* screen leaves the flashing on
C37_FlashingStartsWithAlert ==
    [][(\E a \in alerts' \ alerts : a.obnoxious) => flashing']_vars

\* C37 for every step but the three that call stopFlashing outside a dismissal:
\* the flashing under an obnoxious alert that stays on screen is stopped only by
\* a close of the settings panel, by a configuration change with monitoring
\* off, or by the menu
C37_StoppedOnlyByPanelConfigOrMenu ==
    [][((\E a \in alerts \cap alerts' : a.obnoxious) /\ flashing /\ ~flashing') =>
          \/ settingsPanel /\ ~settingsPanel'
          \/ ~config'.enabled
          \/ menu.open /\ ~menu'.open]_vars

\* the settings panel was closed under the modal of an idle alert: the alert is
\* on screen, monitoring is on, the latches are set and the flashing is off
C37_PanelClosedUnderAlert ==
    \E a \in alerts :
        /\ a.obnoxious /\ a.kind = "idle"
        /\ config.enabled /\ ~settingsPanel /\ ~menu.open
        /\ Tracked(a.owner) /\ data[a.owner].obnoxiousNotified
        /\ ~flashing

(* ---- C38: Terminate on an execution that has left the registry ---- *)

\* C38: the termination protocol acts on a terminal only for an execution that
\* is in the registry: a Terminate chosen in an alert (or in the menu) whose
\* execution has ended meanwhile sends no signal and destroys nothing.
C38_NoCallOutsideRegistry ==
    [][\A e \in Execs :
          termLog'[e] # termLog[e] => Tracked(e)]_vars

\* C38 for the tick: auto-terminate invokes the protocol on registry entries only
C38_TickCallsInsideRegistry ==
    [][\A e \in Execs :
          (termLog'[e] # termLog[e] /\ termLog'[e][Len(termLog'[e])].by = "tick") =>
             Tracked(e)]_vars

\* the execution ended under its modal, Terminate was chosen in the modal, and
\* the terminal was destroyed
C38_DestroyedAfterEnd ==
    \E e \in Execs :
        /\ phase[e] = "ended" /\ ~Tracked(e)
        /\ termLog[e] = <<Call("destroy", "alert")>>
        /\ disposed["t1"]

(* ---- C39: an execution ends under its quiet alert ---- *)
(* SpecLive with executions that end and a user who may cancel a quiet     *)
(* alert but need not: the tick keeps running and time keeps passing, and  *)
(* nothing is assumed about the user.                                      *)

NextEnded ==
    \/ NextLive
    \/ \E e \in Execs : EndExecution(e)

SpecEnded ==
    /\ InitLive
    /\ [][NextEnded]_vars
    /\ []<>ticked
    /\ SF_vars(Elapse)

\* ... and a user who cancels every quiet alert in the end
SpecEndedCancelled ==
    /\ SpecEnded
    /\ WF_vars(\E a \in AlertRecords : CancelQuiet(a))

\* the quiet alert of e is on screen and e has ended
EndedUnderAlert(e) ==
    /\ phase[e] = "ended"
    /\ \E a \in alerts : a.owner = e /\ ~a.obnoxious

\* C39: when an execution has ended while its quiet alert is on screen, the
\* showing flag is cleared in the end, whether or not the user cancels the alert.
C39_FlagClearedAfterEnd ==
    \A e \in Execs : EndedUnderAlert(e) ~> ~isNotificationShowing

\* C39 with a user who cancels: the flag is cleared in the end
C39_FlagClearedWhenCancelled ==
    \A e \in Execs : (EndedUnderAlert(e) /\ isNotificationShowing) ~> ~isNotificationShowing

\* the first execution has ended under its quiet alert, the flag is set, and the
\* idle alert of the second, past its threshold, is held back by the flag
C39_OtherExecutionHeldBack ==
    /\ EndedUnderAlert("e1")
    /\ isNotificationShowing
    /\ ticked
    /\ Tracked("e2")
    /\ ~data["e2"].idleNotified
    /\ IsPastIdle(Idle(data["e2"], now), config)
    /\ \A a \in alerts : a.owner # "e2"

(* ---- C40: the two idle latches ---- *)

\* C40: in every record, obnoxiousNotified implies idleNotified: an obnoxious idle
\* alert sets both, activity, Reset Timer and Snooze clear both, and nothing
\* clears idleNotified alone.
C40_ObnoxiousLatchImpliesIdleLatch ==
    \A e \in Execs :
        HasData(e) => (data[e].obnoxiousNotified => data[e].idleNotified)

\* an obnoxious idle alert has set both latches of a tracked execution
C40_Witness ==
    \E a \in alerts :
        /\ a.kind = "idle" /\ a.obnoxious
        /\ Tracked(a.owner)
        /\ data[a.owner].obnoxiousNotified /\ data[a.owner].idleNotified

====
